---- MODULE Spec2Model ----
(***************************************************************************)
(* The concurrent fetch-and-persist pipeline of src/fetchMessages.py:      *)
(* save_conversations_to_jsonl and fetch_conversations_and_write (the      *)
(* coordinating thread), the ThreadPoolExecutor workers running            *)
(* fetch_messages, the two paginated endpoints of the server, and the      *)
(* output file (Spec, LiveSpec); fetch_messages called on its own          *)
(* (FetchSpec); the script's main block around the pipeline (MainSpec);    *)
(* the pipeline against a list with a malformed entry (MalformedSpec);     *)
(* the pipeline followed by the viewer loading its file (RoundTripSpec);   *)
(* and of the viewer, load_conversations of src/viewChats.py (ViewerSpec), *)
(* manage_tags of src/viewer/tagConversation.py (TagsSpec), the main loop  *)
(* run of src/viewChats.py (RunSpec), filter_by_tags of                    *)
(* src/viewer/filterConversation.py (FilterSpec) and show_help of          *)
(* src/viewer/helpWindow.py (HelpSpec).                                    *)
(***************************************************************************)
EXTENDS Integers, Sequences, FiniteSets, TLC

(* ------------------------------ bounds -------------------------------- *)
\* conversations the server holds, ids 1..n with n <= MaxConvs
MaxConvs == 3
\* largest value of --limit (max_to_save) explored
MaxTarget == 3
\* largest value of --concurrent (MAX_CONCURRENT_CALLS) explored
MaxWorkers == 2
\* conversations the server holds in the runs checked for termination
MaxLiveConvs == 2
\* the script run from its command line: conversations on the server
MaxMainConvs == 2
\* conversations on a server whose list may hold a malformed entry
MaxListed == 3
\* writes to the output stream that raise in one run
MaxWriteFailures == 1
\* messages of a conversation in the calls of fetch_messages checked on
\* their own
MaxMessages == 3
\* lines of the file the viewer is given, at most
MaxLines == 3
\* conversations the viewer holds when tags are managed, at most
MaxLoaded == 2
\* conversations on the server of a run whose file the viewer then loads
MaxViewed == 3
\* conversations the viewer holds when its main loop runs, at most
MaxShown == 2
\* conversations the viewer holds when they are filtered by tag, at most
MaxFiltered == 3
\* how far scroll_position of the help window is followed below 0 and
\* above the number of help lines
MaxOvershoot == 2

(* ------------------------- values of the data ------------------------- *)
\* Python's None, for tokens, timestamps and the error field
None == "None"

\* createdAt / updatedAt strings of the list endpoint are "T1", "T2" and
\* "bad", a string datetime.fromisoformat rejects.
\* datetime.fromisoformat(s.replace("Z", "+00:00")): seconds since an epoch
\* (T1 is minute 10, T2 minute 25), or ParseError when the call raises
\* ValueError
ParseError == -1000
fromisoformat(s) ==
  CASE s = "T1" -> 600
    [] s = "T2" -> 1500
    [] OTHER -> ParseError

(* ----------------------- the messages endpoint ------------------------ *)
\* What the server answers for the messages of one conversation, by kind of
\* conversation: a sequence of pages; a page either fails (HTTPError or any
\* other exception) or carries raw messages and perhaps a nextToken.
ConvKinds == {"in", "out", "err", "in_badts", "in_skew"}

\* A continuation token is a positive number; NoToken is no token at all
\* (Python's None, or no nextToken in the response), EmptyToken the empty
\* string.
NoToken == 0
EmptyToken == -1

\* a raw message of the messages endpoint; a payload is a dict, NoPayload
\* when the message has none or an empty one
NoPayload == << >>
RawMsg(type, direction, updatedAt, payload) ==
  [type |-> type, direction |-> direction, updatedAt |-> updatedAt, payload |-> payload]

\* the k-th element of server_pages answers the k-th request of a call
MessagePages(kind) ==
  CASE kind = "in" ->
         << [fail |-> FALSE, nextToken |-> 2,
             messages |-> << RawMsg("text", "outgoing", 2, [text |-> "hello"]) >>],
            [fail |-> FALSE, nextToken |-> NoToken,
             messages |-> << RawMsg("text", "incoming", 1, [text |-> "hi"]) >>] >>
    [] kind \in {"in_badts", "in_skew", "in_badupdate"} ->
         << [fail |-> FALSE, nextToken |-> NoToken,
             messages |-> << RawMsg("text", "incoming", 1, [text |-> "hi"]) >>] >>
    [] kind = "out" ->
         << [fail |-> FALSE, nextToken |-> NoToken,
             messages |-> << RawMsg("card", "outgoing", 1, NoPayload) >>] >>
    [] kind = "empty" ->
         << [fail |-> FALSE, nextToken |-> NoToken, messages |-> << >>] >>
    [] OTHER ->
         << [fail |-> TRUE, nextToken |-> NoToken, messages |-> << >>] >>

\* createdAt and updatedAt the list endpoint reports for a conversation; an
\* "in_skew" conversation was updated before it was created
CreatedAtOf(kind) ==
  CASE kind = "in_badts" -> "bad"
    [] kind = "in_skew" -> "T2"
    [] OTHER -> "T1"
UpdatedAtOf(kind) ==
  CASE kind = "in_badupdate" -> "bad"
    [] kind = "in_skew" -> "T1"
    [] OTHER -> "T2"

(* --------------------------- fetch_messages --------------------------- *)
\* a message without updatedAt (timestamp None); real timestamps are 1, 2, ...
NullTimestamp == -1

\* dict.get(key, default)
Get(dict, key, default) == IF key \in DOMAIN dict THEN dict[key] ELSE default

\* a normalisation that takes the text of the payload whatever the type
NormalizeMessage_AnyTypeText(message) ==
  LET payload == Get(message, "payload", NoPayload)
  IN [type |-> Get(message, "type", None),
      direction |-> Get(message, "direction", None),
      timestamp |-> Get(message, "updatedAt", NullTimestamp),
      text |-> IF "text" \in DOMAIN payload
               THEN payload["text"]
               ELSE "[" \o Get(message, "type", "unknown") \o " message]"]

\* lines 94-110: one raw message normalised
NormalizeMessage(message) ==
  LET payload == Get(message, "payload", NoPayload)
  IN [type |-> Get(message, "type", None),
      direction |-> Get(message, "direction", None),
      timestamp |-> Get(message, "updatedAt", NullTimestamp),
      text |-> IF Get(message, "type", None) = "text" /\ "text" \in DOMAIN payload
               THEN payload["text"]
               ELSE "[" \o Get(message, "type", "unknown") \o " message]"]

RECURSIVE NormalizePage(_)
NormalizePage(raw_messages) ==
  IF raw_messages = << >> THEN << >>
  ELSE << NormalizeMessage(Head(raw_messages)) >> \o NormalizePage(Tail(raw_messages))

\* line 147: the sort key, m.get("timestamp", "") or ""; the empty string
\* sorts before every timestamp
EmptyKey == 0
SortKey(m) == IF m.timestamp = NullTimestamp THEN EmptyKey ELSE m.timestamp

\* a sort that puts a message before the messages of the same key
RECURSIVE InsertSorted_Unstable(_, _)
InsertSorted_Unstable(m, sorted) ==
  IF sorted = << >> THEN << m >>
  ELSE IF SortKey(Head(sorted)) < SortKey(m)
       THEN << Head(sorted) >> \o InsertSorted_Unstable(m, Tail(sorted))
       ELSE << m >> \o sorted

\* list.sort is stable: insert after the elements whose key is <= the key
RECURSIVE InsertSorted(_, _)
InsertSorted(m, sorted) ==
  IF sorted = << >> THEN << m >>
  ELSE IF SortKey(Head(sorted)) <= SortKey(m)
       THEN << Head(sorted) >> \o InsertSorted(m, Tail(sorted))
       ELSE << m >> \o sorted

RECURSIVE SortMessages(_)
SortMessages(msgs) ==
  IF msgs = << >> THEN << >>
  ELSE InsertSorted(msgs[Len(msgs)], SortMessages(SubSeq(msgs, 1, Len(msgs) - 1)))

\* line 150
HasIncoming(msgs) == \E i \in 1..Len(msgs) : msgs[i].direction = "incoming"

\* lines 55-57: the credentials fetch_messages and
\* fetch_conversations_and_write read from the environment; the environment
\* is the set of those that are set to a non-empty value
Credentials == {"BOTPRESS_WORKSPACE_ID", "BOTPRESS_BOT_ID", "BOTPRESS_TOKEN"}

\* lines 60 and 183: all([workspace_id, bot_id, token])
AllSet(env) == Credentials \subseteq env

\* lines 61-66: the result when a credential is missing (it carries neither
\* createdAt nor updatedAt)
MissingEnvResult(conversation_id) ==
  [conversation_id |-> conversation_id, messages |-> << >>,
   has_incoming |-> FALSE, error |-> "Missing environment variables"]

\* lines 120-144: the result of a failed page request
ErrorResult(conversation_id, createdAt, updatedAt) ==
  [conversation_id |-> conversation_id, createdAt |-> createdAt,
   updatedAt |-> updatedAt, messages |-> << >>, has_incoming |-> FALSE,
   error |-> "HTTPError"]

\* a pagination loop that returns what it has accumulated when a page fails
RECURSIVE FetchFrom_KeepsPartial(_, _, _, _, _)
FetchFrom_KeepsPartial(server_pages, k, processed_messages, conversation_id, stamps) ==
  IF server_pages[k].fail
  THEN [conversation_id |-> conversation_id, createdAt |-> stamps[1],
        updatedAt |-> stamps[2], messages |-> SortMessages(processed_messages),
        has_incoming |-> HasIncoming(processed_messages), error |-> "HTTPError"]
  ELSE LET acc == processed_messages \o NormalizePage(server_pages[k].messages)
       IN IF server_pages[k].nextToken # NoToken
          THEN FetchFrom_KeepsPartial(server_pages, k + 1, acc, conversation_id, stamps)
          ELSE [conversation_id |-> conversation_id, createdAt |-> stamps[1],
                updatedAt |-> stamps[2], messages |-> SortMessages(acc),
                has_incoming |-> HasIncoming(SortMessages(acc)),
                error |-> None]

\* lines 80-144: the pagination loop from its k-th turn with the messages
\* accumulated so far (the loop goes on while next_token is not None, line
\* 80); lines 146-159 when the loop ends
RECURSIVE FetchFrom(_, _, _, _, _)
FetchFrom(server_pages, k, processed_messages, conversation_id, stamps) ==
  IF server_pages[k].fail
  THEN ErrorResult(conversation_id, stamps[1], stamps[2])
  ELSE LET acc == processed_messages \o NormalizePage(server_pages[k].messages)
       IN IF server_pages[k].nextToken # NoToken
          THEN FetchFrom(server_pages, k + 1, acc, conversation_id, stamps)
          ELSE [conversation_id |-> conversation_id, createdAt |-> stamps[1],
                updatedAt |-> stamps[2], messages |-> SortMessages(acc),
                has_incoming |-> HasIncoming(SortMessages(acc)),
                error |-> None]

fetch_messages(env, server_pages, conversation_id, createdAt, updatedAt) ==
  IF ~AllSet(env)
  THEN MissingEnvResult(conversation_id)
  ELSE FetchFrom(server_pages, 1, << >>, conversation_id, << createdAt, updatedAt >>)

\* the requests one call of fetch_messages sends to the messages endpoint
\* (line 87, once per turn of the loop of line 80)
RECURSIVE RequestsFrom(_, _)
RequestsFrom(server_pages, k) ==
  IF server_pages[k].fail \/ server_pages[k].nextToken = NoToken
  THEN 1
  ELSE 1 + RequestsFrom(server_pages, k + 1)

\* lines 82-84: the nextToken parameter of the request url (NoToken when the
\* url has none)
UrlToken(next_token) == IF next_token \notin {NoToken, EmptyToken} THEN next_token ELSE NoToken

\* the nextToken parameters of the requests one call sends, in order, from
\* the k-th turn of the loop on (lines 80-87 and 113)
RECURSIVE RequestTokens(_, _, _)
RequestTokens(server_pages, k, next_token) ==
  << UrlToken(next_token) >>
  \o (IF server_pages[k].fail \/ server_pages[k].nextToken = NoToken
      THEN << >>
      ELSE RequestTokens(server_pages, k + 1, server_pages[k].nextToken))

RequestsIssued(env, server_pages) ==
  IF ~AllSet(env) THEN 0 ELSE RequestsFrom(server_pages, 1)

(* ------------------------- the list endpoint -------------------------- *)
\* one entry of a conversation-list page
ListEntry(c, k) == [id |-> c, createdAt |-> CreatedAtOf(k), updatedAt |-> UpdatedAtOf(k)]

\* the entries of the conversations lo..hi
RECURSIVE Entries(_, _, _)
Entries(lo, hi, kinds) ==
  IF lo > hi THEN << >>
  ELSE << ListEntry(lo, kinds[lo]) >> \o Entries(lo + 1, hi, kinds)

\* A continuation token of the list endpoint is the number of the page it
\* asks for.

\* The server's conversation list: one page, or two pages cut after s
\* conversations (either page may be empty; the last page has no token).
ListPages(n, kinds) ==
  { << [conversations |-> Entries(1, n, kinds), nextToken |-> NoToken] >> }
  \cup
  { << [conversations |-> Entries(1, s, kinds), nextToken |-> 2],
       [conversations |-> Entries(s + 1, n, kinds), nextToken |-> NoToken] >>
    : s \in 0..n }

(* ------------------------------ the state ----------------------------- *)
VARIABLES
  pages,                  \* the server's conversation-list pages
  kind,                   \* the server's data: kind of each conversation
  max_to_save,            \* the target count (--limit)
  MAX_CONCURRENT_CALLS,   \* the worker pool's max_workers (--concurrent)
  pc,                     \* where the coordinating thread is
  saved_count, page, next_token, processed_ids_count,
  current_url,            \* the nextToken parameter of the list request sent
  list_data,              \* number of the page the last list response carried
  future_to_id,           \* the batch's futures, in submission order
  yielded,                \* futures as_completed has handed out
  conv_id,                \* the future whose result is being processed
  cancel_pos,             \* position of the cancel loop (lines 275-276)
  output_file,            \* what the output stream holds outside the process
  list_status,            \* status of the last list response
  submitted,              \* history: ids submitted to fetch_messages, in order
  consumed,               \* history: ids whose result the loop consumed
  write_failed,           \* history: ids whose write or flush raised
  environ,                \* os.environ: the credentials that are set
  finished,               \* as_completed: futures done when it was called
  finish_order,           \* futures done and not yet handed out, in the
                          \* order they completed
  call,                   \* one call of fetch_messages on its own
  filename,               \* the viewer: the lines of the file it is given
  conversations,          \* the viewer: self.conversations
  current_index,          \* the viewer: self.current_index
  view,                   \* the viewer: where it is, and its local variables
  args,                   \* the script: the parsed command line
  actual_saved_count,     \* the script: what save_conversations_to_jsonl returned
  stdout,                 \* the script: the summary it printed
  stderr                  \* the script: the warnings and errors it printed

viewer == << filename, conversations, current_index, view >>

script == << args, actual_saved_count, stdout, stderr >>

vars == << pages, kind, max_to_save, MAX_CONCURRENT_CALLS, pc, saved_count, page,
           next_token, processed_ids_count, current_url, list_data, future_to_id, yielded,
           conv_id, cancel_pos, output_file, list_status, submitted, consumed,
           write_failed, environ, finished, finish_order, call, viewer, script >>

server == << pages, kind, max_to_save, MAX_CONCURRENT_CALLS >>

\* a future that holds no result yet
NoResult ==
  [conversation_id |-> 0, createdAt |-> None, updatedAt |-> None,
   messages |-> << >>, has_incoming |-> FALSE, error |-> None]

\* a line of the output file; of a torn line only a proper prefix reached
\* the file
Torn(record) == [record |-> record, complete |-> FALSE]
Line(record) == [record |-> record, complete |-> TRUE]

\* a record an earlier run wrote and the viewer marked as read
OldRecord ==
  [conversation_id |-> 0, messages |-> << >>,
   metadata |-> [createdDate |-> "T1", duration |-> 15, tags |-> << "read" >>]]

\* what the output path may hold before a run: nothing, or an earlier file
ExistingContent == { << >>, << Line(OldRecord) >> }

\* no call of fetch_messages on its own is under way
NoCall ==
  [environ |-> {}, server_pages |-> << >>, returned |-> FALSE,
   result |-> NoResult, requests |-> << >>]

\* the functions are called without the script's main block
NoArgs == [parsed |-> FALSE, limit |-> 0, concurrent |-> 0]
NoScript ==
  /\ args = NoArgs
  /\ actual_saved_count = 0
  /\ stdout = << >>
  /\ stderr = << >>

\* no viewer is running
NoViewer ==
  /\ filename = [exists |-> FALSE, lines |-> << >>]
  /\ conversations = << >>
  /\ current_index = 0
  /\ view = [pc |-> "none"]

\* save_conversations_to_jsonl is not running
NoRun ==
  /\ NoScript
  /\ pages = << >>
  /\ kind = << >>
  /\ max_to_save = 0
  /\ MAX_CONCURRENT_CALLS = 1
  /\ environ = {}
  /\ output_file = << >>
  /\ finished = {}
  /\ finish_order = << >>
  /\ pc = "none"
  /\ saved_count = 0
  /\ page = 1
  /\ next_token = NoToken
  /\ processed_ids_count = 0
  /\ current_url = NoToken
  /\ list_data = 0
  /\ future_to_id = << >>
  /\ yielded = {}
  /\ conv_id = 0
  /\ cancel_pos = 0
  /\ list_status = "none"
  /\ submitted = << >>
  /\ consumed = {}
  /\ write_failed = {}

\* the state when save_conversations_to_jsonl is called (line 343), for a
\* server with at most max_convs conversations; lines 195-198 set the
\* counters of fetch_conversations_and_write
InitWith(max_convs) ==
  /\ \E n \in 0..max_convs :
       \E kinds \in [1..n -> ConvKinds] :
         /\ kind = kinds
         /\ pages \in ListPages(n, kinds)
  /\ max_to_save \in 0..MaxTarget
  /\ MAX_CONCURRENT_CALLS \in 1..MaxWorkers
  /\ environ \in SUBSET Credentials
  /\ output_file \in ExistingContent
  /\ finished = {}
  /\ finish_order = << >>
  /\ call = NoCall
  /\ NoViewer
  /\ NoScript
  /\ pc = "open"
  /\ saved_count = 0
  /\ page = 1
  /\ next_token = NoToken
  /\ processed_ids_count = 0
  /\ current_url = NoToken
  /\ list_data = 0
  /\ future_to_id = << >>
  /\ yielded = {}
  /\ conv_id = 0
  /\ cancel_pos = 0
  /\ list_status = "none"
  /\ submitted = << >>
  /\ consumed = {}
  /\ write_failed = {}

Init == InitWith(MaxConvs)

(* ----------------------- the coordinating thread ---------------------- *)
\* line 347: open(output_file, "w") creates the file or truncates it
OpenOutput ==
  /\ pc = "open"
  /\ output_file' = << >>
  /\ pc' = "check_env"
  /\ UNCHANGED << server, script, environ, call, viewer, finished, finish_order,
                  saved_count, page, next_token, processed_ids_count,
                  list_data, future_to_id, yielded, conv_id, cancel_pos,
                  list_status, submitted, consumed, write_failed, current_url >>

\* a start without the test of line 183
CheckEnv_Skipped ==
  /\ pc = "check_env"
  /\ pc' = "while"
  /\ UNCHANGED << server, script, environ, call, viewer, finished, finish_order,
                  saved_count, page, next_token, processed_ids_count,
                  list_data, future_to_id, yielded, conv_id, cancel_pos,
                  output_file, list_status, submitted, consumed, write_failed,
                  current_url >>

\* lines 179-186: fetch_conversations_and_write raises ValueError when a
\* credential is missing (save_conversations_to_jsonl catches it, line 351);
\* lines 188-203 otherwise
CheckEnv ==
  /\ pc = "check_env"
  /\ pc' = IF AllSet(environ) THEN "while" ELSE "raised"
  /\ UNCHANGED << server, script, environ, call, viewer, finished, finish_order,
                  saved_count, page, next_token, processed_ids_count,
                  list_data, future_to_id, yielded, conv_id, cancel_pos,
                  output_file, list_status, submitted, consumed, write_failed,
                  current_url >>

\* a loop that builds every list request without the token
WhileCheck_DropsToken ==
  /\ pc = "while"
  /\ IF saved_count < max_to_save
     THEN pc' = "list_request" /\ current_url' = NoToken
     ELSE pc' = "returned" /\ UNCHANGED current_url
  /\ UNCHANGED << server, script, environ, call, viewer, finished, finish_order,
                  saved_count, page, next_token, processed_ids_count,
                  list_data, future_to_id, yielded, conv_id, cancel_pos,
                  output_file, list_status, submitted, consumed, write_failed >>

\* line 204: the loop condition; lines 207-212 send the list request, lines
\* 319-324 return
WhileCheck ==
  /\ pc = "while"
  /\ IF saved_count < max_to_save
     THEN pc' = "list_request" /\ current_url' = next_token
     ELSE pc' = "returned" /\ UNCHANGED current_url
  /\ UNCHANGED << server, script, environ, call, viewer, finished, finish_order,
                  saved_count, page, next_token, processed_ids_count,
                  list_data, future_to_id, yielded, conv_id, cancel_pos,
                  output_file, list_status, submitted, consumed, write_failed >>

\* the page the server returns for a token (lines 207-214)
PageFor(token) == IF token = NoToken THEN 1 ELSE token

\* lines 217-219: conv["createdAt"] or conv["updatedAt"] raises KeyError for
\* an entry of the page that has an id
RaisesKeyError(list_page) ==
  \E i \in 1..Len(list_page.conversations) :
    /\ "id" \in DOMAIN list_page.conversations[i]
    /\ \/ "createdAt" \notin DOMAIN list_page.conversations[i]
       \/ "updatedAt" \notin DOMAIN list_page.conversations[i]

\* lines 216-219: the (id, createdAt, updatedAt) tuples of a page, one for
\* each entry that has an id
PageConversationData(list_page) ==
  SelectSeq(list_page.conversations, LAMBDA conv : "id" \in DOMAIN conv)

\* lines 230-235: one future per conversation of the page, all pending
RECURSIVE SubmitAll(_)
SubmitAll(page_conversation_data) ==
  IF page_conversation_data = << >> THEN << >>
  ELSE << [id |-> Head(page_conversation_data).id,
           createdAt |-> Head(page_conversation_data).createdAt,
           updatedAt |-> Head(page_conversation_data).updatedAt,
           state |-> "pending", result |-> NoResult] >>
       \o SubmitAll(Tail(page_conversation_data))

RECURSIVE Ids(_)
Ids(futures) ==
  IF futures = << >> THEN << >> ELSE << Head(futures).id >> \o Ids(Tail(futures))

\* a listing that follows the token of a page without conversations
ListOk_FollowsTokenOfEmptyPage ==
  /\ pc = "list_request"
  /\ LET p == PageFor(current_url)
         page_conversation_data == PageConversationData(pages[p])
     IN /\ list_data' = p
        /\ list_status' = "ok"
        /\ IF page_conversation_data = << >>
           THEN /\ next_token' = pages[p].nextToken
                /\ IF pages[p].nextToken = NoToken
                   THEN pc' = "returned" /\ UNCHANGED page
                   ELSE pc' = "while" /\ page' = page + 1
                /\ UNCHANGED << processed_ids_count, future_to_id, yielded, submitted >>
           ELSE /\ pc' = "for_as_completed"
                /\ processed_ids_count' =
                     processed_ids_count + Len(page_conversation_data)
                /\ future_to_id' = SubmitAll(page_conversation_data)
                /\ yielded' = {}
                /\ submitted' = submitted \o Ids(SubmitAll(page_conversation_data))
                /\ UNCHANGED << page, next_token >>
  /\ UNCHANGED << server, script, environ, call, viewer, finished, finish_order,
                  saved_count, conv_id, cancel_pos,
                  output_file, consumed, write_failed, current_url >>

\* a page read entry by entry: the entries before a malformed one are
\* submitted
ListOk_SubmitsUntilMalformed ==
  /\ pc = "list_request"
  /\ LET p == PageFor(current_url)
         good == { i \in 1..Len(pages[p].conversations) :
                    \A j \in 1..i : DOMAIN pages[p].conversations[j]
                                      = {"id", "createdAt", "updatedAt"} }
         page_conversation_data == SubSeq(pages[p].conversations, 1, Cardinality(good))
     IN /\ list_data' = p
        /\ list_status' = "ok"
        /\ IF page_conversation_data = << >>
           THEN /\ pc' = "returned"
                /\ UNCHANGED << processed_ids_count, future_to_id, yielded, submitted >>
           ELSE /\ pc' = "for_as_completed"
                /\ processed_ids_count' =
                     processed_ids_count + Len(page_conversation_data)
                /\ future_to_id' = SubmitAll(page_conversation_data)
                /\ yielded' = {}
                /\ submitted' = submitted \o Ids(SubmitAll(page_conversation_data))
  /\ UNCHANGED << server, script, environ, call, viewer, finished, finish_order,
                  saved_count, page, next_token, conv_id, cancel_pos,
                  output_file, consumed, write_failed, current_url >>

\* lines 212-235: a list response with status 200; a KeyError of lines
\* 217-219 is caught at line 313 and ends the loop
ListOk ==
  /\ pc = "list_request"
  /\ LET p == PageFor(current_url)
         page_conversation_data == PageConversationData(pages[p])
     IN /\ list_data' = p
        /\ IF RaisesKeyError(pages[p])
           THEN /\ list_status' = "error"
                /\ pc' = "returned"
                /\ UNCHANGED << processed_ids_count, future_to_id, yielded, submitted >>
           ELSE /\ list_status' = "ok"
                /\ IF page_conversation_data = << >>
                   THEN /\ pc' = "returned"
                        /\ UNCHANGED << processed_ids_count, future_to_id, yielded,
                                        submitted >>
                   ELSE /\ pc' = "for_as_completed"
                        /\ processed_ids_count' =
                             processed_ids_count + Len(page_conversation_data)
                        /\ future_to_id' = SubmitAll(page_conversation_data)
                        /\ yielded' = {}
                        /\ submitted' =
                             submitted \o Ids(SubmitAll(page_conversation_data))
  /\ UNCHANGED << server, script, environ, call, viewer, finished, finish_order,
                  saved_count, page, next_token, conv_id, cancel_pos,
                  output_file, consumed, write_failed, current_url >>

\* a 429 handler that moves on to the next page instead of retrying
ListRateLimited_Advances ==
  /\ pc = "list_request"
  /\ pc' = "sleep"
  /\ list_status' = "429"
  /\ IF pages[PageFor(current_url)].nextToken # NoToken
     THEN next_token' = pages[PageFor(current_url)].nextToken /\ page' = page + 1
     ELSE UNCHANGED << next_token, page >>
  /\ UNCHANGED << server, script, environ, call, viewer, finished, finish_order,
                  saved_count, processed_ids_count, list_data,
                  future_to_id, yielded, conv_id, cancel_pos, output_file,
                  submitted, consumed, write_failed, current_url >>

\* lines 302-309: HTTP 429 on the list request
ListRateLimited ==
  /\ pc = "list_request"
  /\ pc' = "sleep"
  /\ list_status' = "429"
  /\ UNCHANGED << server, script, environ, call, viewer, finished, finish_order,
                  saved_count, page, next_token, processed_ids_count,
                  list_data, future_to_id, yielded, conv_id, cancel_pos,
                  output_file, submitted, consumed, write_failed, current_url >>

\* lines 305-309: time.sleep(60), then continue
Sleep ==
  /\ pc = "sleep"
  /\ pc' = "while"
  /\ UNCHANGED << server, script, environ, call, viewer, finished, finish_order,
                  saved_count, page, next_token, processed_ids_count,
                  list_data, future_to_id, yielded, conv_id, cancel_pos,
                  output_file, list_status, submitted, consumed, write_failed,
                  current_url >>

\* a handler that lets the error of the list request leave the function
ListError_Raises ==
  /\ pc = "list_request"
  /\ pc' = "raised"
  /\ list_status' = "error"
  /\ UNCHANGED << server, script, environ, call, viewer, finished, finish_order,
                  saved_count, page, next_token, processed_ids_count,
                  list_data, future_to_id, yielded, conv_id, cancel_pos,
                  output_file, submitted, consumed, write_failed, current_url >>

\* lines 310-317: any other HTTP error, or any other exception
ListError ==
  /\ pc = "list_request"
  /\ pc' = "returned"
  /\ list_status' = "error"
  /\ UNCHANGED << server, script, environ, call, viewer, finished, finish_order,
                  saved_count, page, next_token, processed_ids_count,
                  list_data, future_to_id, yielded, conv_id, cancel_pos,
                  output_file, submitted, consumed, write_failed, current_url >>

(* --------------------------- the worker pool -------------------------- *)
Running == { i \in 1..Len(future_to_id) : future_to_id[i].state = "running" }

\* a pool that starts a thread per work item
CanStart_Unbounded(i) ==
  /\ future_to_id[i].state = "pending"
  /\ \A j \in 1..(i - 1) : future_to_id[j].state # "pending"

\* The pool's threads take the work items in submission order, never more
\* than max_workers at a time (line 230); a cancelled item is dropped.
CanStart(i) ==
  /\ future_to_id[i].state = "pending"
  /\ \A j \in 1..(i - 1) : future_to_id[j].state # "pending"
  /\ Cardinality(Running) < MAX_CONCURRENT_CALLS

\* a worker thread begins fetch_messages for the i-th future (line 233)
StartTask(i) ==
  /\ CanStart(i)
  /\ future_to_id' = [future_to_id EXCEPT ![i].state = "running"]
  /\ UNCHANGED << server, script, environ, call, viewer, finished, finish_order,
                  pc, saved_count, page, next_token,
                  processed_ids_count, list_data, yielded, conv_id, cancel_pos,
                  output_file, list_status, submitted, consumed, write_failed,
                  current_url >>

\* the order of completion matters to the loop of line 238 until that loop
\* is left
Watched == pc # "exit_with"

\* a worker that appends the record of its result to the file itself
FinishTask_WritesRecord(i) ==
  /\ future_to_id[i].state = "running"
  /\ future_to_id' =
       [future_to_id EXCEPT
          ![i].state = "finished",
          ![i].result = fetch_messages(environ,
                                       MessagePages(kind[future_to_id[i].id]),
                                       future_to_id[i].id,
                                       future_to_id[i].createdAt,
                                       future_to_id[i].updatedAt)]
  /\ finish_order' = IF Watched THEN Append(finish_order, i) ELSE finish_order
  /\ output_file' =
       IF future_to_id'[i].result.error = None /\ future_to_id'[i].result.has_incoming
       THEN Append(output_file, [record |-> future_to_id'[i].result, complete |-> TRUE])
       ELSE output_file
  /\ UNCHANGED << server, script, environ, call, viewer, finished,
                  pc, saved_count, page, next_token,
                  processed_ids_count, list_data, yielded, conv_id, cancel_pos,
                  list_status, submitted, consumed, write_failed,
                  current_url >>

\* fetch_messages returns and the future holds its result (lines 33-159)
FinishTask(i) ==
  /\ future_to_id[i].state = "running"
  /\ future_to_id' =
       [future_to_id EXCEPT
          ![i].state = "finished",
          ![i].result = fetch_messages(environ,
                                       MessagePages(kind[future_to_id[i].id]),
                                       future_to_id[i].id,
                                       future_to_id[i].createdAt,
                                       future_to_id[i].updatedAt)]
  /\ finish_order' = IF Watched THEN Append(finish_order, i) ELSE finish_order
  /\ UNCHANGED << server, script, environ, call, viewer, finished,
                  pc, saved_count, page, next_token,
                  processed_ids_count, list_data, yielded, conv_id, cancel_pos,
                  output_file, list_status, submitted, consumed, write_failed,
                  current_url >>

(* ------------------- consuming the results of a batch ----------------- *)
\* the filter without the has_incoming test of line 247
Accepts_NoIncomingTest(result) ==
  /\ result.error = None
  /\ fromisoformat(result.createdAt) # ParseError
  /\ fromisoformat(result.updatedAt) # ParseError

\* lines 243-252: the result passes the filter and its timestamps parse
Accepts(result) ==
  /\ result.error = None
  /\ result.has_incoming
  /\ fromisoformat(result.createdAt) # ParseError
  /\ fromisoformat(result.updatedAt) # ParseError

\* line 252: (updated_datetime - created_datetime).total_seconds()
total_seconds(result) ==
  fromisoformat(result.updatedAt) - fromisoformat(result.createdAt)

\* a record whose duration is never below zero
OutputData_ClampedDuration(result) ==
  [conversation_id |-> result.conversation_id,
   messages |-> result.messages,
   metadata |-> [createdDate |-> result.createdAt,
                 duration |-> IF total_seconds(result) < 0 THEN 0
                              ELSE total_seconds(result) \div 60,
                 tags |-> << "unread" >>]]

\* a record that takes its createdDate from updatedAt
OutputData_CreatedFromUpdated(result) ==
  [conversation_id |-> result.conversation_id,
   messages |-> result.messages,
   metadata |-> [createdDate |-> result.updatedAt,
                 duration |-> total_seconds(result) \div 60,
                 tags |-> << "unread" >>]]

\* lines 250-261: the record of an accepted result; the duration is
\* total_seconds() / 60.0, and the timestamps of the model lie whole minutes
\* apart
OutputData(result) ==
  [conversation_id |-> result.conversation_id,
   messages |-> result.messages,
   metadata |-> [createdDate |-> result.createdAt,
                 duration |-> total_seconds(result) \div 60,
                 tags |-> << "unread" >>]]

\* line 238, the first turn of the loop: as_completed takes the futures that
\* are done already; it hands them out first, the others as they complete
AsCompleted ==
  /\ pc = "for_as_completed"
  /\ finished' = { i \in 1..Len(future_to_id) : future_to_id[i].state = "finished" }
  /\ pc' = "as_completed"
  /\ UNCHANGED << server, script, environ, call, viewer, finish_order,
                  saved_count, page, next_token, processed_ids_count,
                  list_data, future_to_id, yielded, conv_id, cancel_pos,
                  output_file, list_status, submitted, consumed, write_failed,
                  current_url >>

\* a sequence of futures without the future i
Without(order, i) == SelectSeq(order, LAMBDA j : j # i)

\* the future as_completed hands out next: any of those that were done when
\* it was called; once these are handed out, the one that completed first
\* (a cancelled future when the pool has dropped it)
NextCompleted(i) ==
  /\ i \notin yielded
  /\ future_to_id[i].state \in {"finished", "cancelled"}
  /\ \/ i \in finished
     \/ /\ finished = {}
        /\ \/ future_to_id[i].state = "cancelled"
           \/ finish_order # << >> /\ i = Head(finish_order)

\* a loop that waits for every future of the batch before it takes a result
ConsumeResult_WaitsForBatch(i) ==
  /\ pc = "as_completed"
  /\ \A j \in 1..Len(future_to_id) : future_to_id[j].state \in {"finished", "cancelled"}
  /\ NextCompleted(i)
  /\ finished' = finished \ {i}
  /\ finish_order' = Without(finish_order, i)
  /\ yielded' = yielded \cup {i}
  /\ conv_id' = i
  /\ consumed' = consumed \cup {future_to_id[i].id}
  /\ pc' = IF future_to_id[i].state = "finished" /\ Accepts(future_to_id[i].result)
           THEN "write" ELSE "as_completed"
  /\ UNCHANGED << server, script, environ, call, viewer,
                  saved_count, page, next_token, processed_ids_count,
                  list_data, future_to_id, cancel_pos, output_file,
                  list_status, submitted, write_failed, current_url >>

\* a loop that submits a conversation once more when its fetch has failed
ConsumeResult_RetriesFailedFetch(i) ==
  /\ pc = "as_completed"
  /\ NextCompleted(i)
  /\ finished' = finished \ {i}
  /\ finish_order' = Without(finish_order, i)
  /\ conv_id' = i
  /\ IF /\ future_to_id[i].result.error # None
        /\ Cardinality({ j \in 1..Len(submitted) : submitted[j] = future_to_id[i].id }) < 2
     THEN /\ future_to_id' = [future_to_id EXCEPT ![i].state = "pending",
                                                  ![i].result = NoResult]
          /\ submitted' = Append(submitted, future_to_id[i].id)
          /\ pc' = "as_completed"
          /\ UNCHANGED << yielded, consumed >>
     ELSE /\ yielded' = yielded \cup {i}
          /\ consumed' = consumed \cup {future_to_id[i].id}
          /\ pc' = IF future_to_id[i].state = "finished"
                      /\ Accepts(future_to_id[i].result)
                   THEN "write" ELSE "as_completed"
          /\ UNCHANGED << future_to_id, submitted >>
  /\ UNCHANGED << server, script, environ, call, viewer,
                  saved_count, page, next_token, processed_ids_count,
                  list_data, cancel_pos, output_file,
                  list_status, write_failed, current_url >>

\* a loop that gives up the batch when a result carries an error
ConsumeResult_AbortsBatchOnError(i) ==
  /\ pc = "as_completed"
  /\ NextCompleted(i)
  /\ finished' = finished \ {i}
  /\ finish_order' = Without(finish_order, i)
  /\ yielded' = yielded \cup {i}
  /\ conv_id' = i
  /\ consumed' = consumed \cup {future_to_id[i].id}
  /\ pc' = IF future_to_id[i].state = "finished" /\ Accepts(future_to_id[i].result)
           THEN "write"
           ELSE IF future_to_id[i].result.error # None THEN "exit_with"
                ELSE "as_completed"
  /\ UNCHANGED << server, script, environ, call, viewer,
                  saved_count, page, next_token, processed_ids_count,
                  list_data, future_to_id, cancel_pos, output_file,
                  list_status, submitted, write_failed, current_url >>

\* a loop that lets the exception of an unparsable timestamp end the run
ConsumeResult_RaisesOnBadTimestamp(i) ==
  /\ pc = "as_completed"
  /\ NextCompleted(i)
  /\ finished' = finished \ {i}
  /\ finish_order' = Without(finish_order, i)
  /\ yielded' = yielded \cup {i}
  /\ conv_id' = i
  /\ consumed' = consumed \cup {future_to_id[i].id}
  /\ pc' = IF future_to_id[i].state = "finished" /\ Accepts(future_to_id[i].result)
           THEN "write"
           ELSE IF /\ future_to_id[i].state = "finished"
                   /\ future_to_id[i].result.error = None
                   /\ future_to_id[i].result.has_incoming
                THEN "raised"
                ELSE "as_completed"
  /\ UNCHANGED << server, script, environ, call, viewer,
                  saved_count, page, next_token, processed_ids_count,
                  list_data, future_to_id, cancel_pos, output_file,
                  list_status, submitted, write_failed, current_url >>

\* lines 238-261: as_completed hands out a future that is done; its result
\* is skipped (error, no incoming message, CancelledError, or an exception
\* while building the record) or goes on to be written
ConsumeResult(i) ==
  /\ pc = "as_completed"
  /\ NextCompleted(i)
  /\ finished' = finished \ {i}
  /\ finish_order' = Without(finish_order, i)
  /\ yielded' = yielded \cup {i}
  /\ conv_id' = i
  /\ consumed' = consumed \cup {future_to_id[i].id}
  /\ pc' = IF future_to_id[i].state = "finished" /\ Accepts(future_to_id[i].result)
           THEN "write" ELSE "as_completed"
  /\ UNCHANGED << server, script, environ, call, viewer,
                  saved_count, page, next_token, processed_ids_count,
                  list_data, future_to_id, cancel_pos, output_file,
                  list_status, submitted, write_failed, current_url >>

\* what the file may hold while a line is on its way: nothing of it yet, or
\* a proper prefix
InProgress(file, record) ==
  IF file # << >> /\ file[Len(file)] = Torn(record)
  THEN { file }
  ELSE { file, Append(file, Torn(record)) }

\* a flush to a file that is written from its start each time
Flushed_FromStart(file, record) == << Line(record) >>

\* the file once the line is flushed
Flushed(file, record) ==
  IF file # << >> /\ file[Len(file)] = Torn(record)
  THEN [file EXCEPT ![Len(file)] = Line(record)]
  ELSE Append(file, Line(record))

\* line 263: output_file_handle.write(json.dumps(output_data) + "\n")
Write ==
  /\ pc = "write"
  /\ output_file' \in InProgress(output_file, OutputData(future_to_id[conv_id].result))
  /\ pc' = "flush"
  /\ UNCHANGED << server, script, environ, call, viewer, finished, finish_order,
                  saved_count, page, next_token, processed_ids_count,
                  list_data, future_to_id, yielded, conv_id, cancel_pos,
                  list_status, submitted, consumed, write_failed, current_url >>

\* line 265: output_file_handle.flush()
Flush ==
  /\ pc = "flush"
  /\ output_file' = Flushed(output_file, OutputData(future_to_id[conv_id].result))
  /\ pc' = "count"
  /\ UNCHANGED << server, script, environ, call, viewer, finished, finish_order,
                  saved_count, page, next_token, processed_ids_count,
                  list_data, future_to_id, yielded, conv_id, cancel_pos,
                  list_status, submitted, consumed, write_failed, current_url >>

\* lines 263-265 raising OSError: the handler of line 284 catches it and the
\* loop goes on with the next future
OutputRaises ==
  /\ pc \in {"write", "flush"}
  /\ Cardinality(write_failed) < MaxWriteFailures
  /\ output_file' \in InProgress(output_file, OutputData(future_to_id[conv_id].result))
  /\ write_failed' = write_failed \cup {future_to_id[conv_id].id}
  /\ pc' = "as_completed"
  /\ UNCHANGED << server, script, environ, call, viewer, finished, finish_order,
                  saved_count, page, next_token, processed_ids_count,
                  list_data, future_to_id, yielded, conv_id, cancel_pos,
                  list_status, submitted, consumed, current_url >>

\* the count with the target test of line 271 off by one (> for >=)
Count_StopsLate ==
  /\ pc = "count"
  /\ saved_count' = saved_count + 1
  /\ IF saved_count + 1 > max_to_save
     THEN pc' = "cancel" /\ cancel_pos' = 1
     ELSE pc' = "as_completed" /\ UNCHANGED cancel_pos
  /\ UNCHANGED << server, script, environ, call, viewer, finished, finish_order,
                  page, next_token, processed_ids_count, list_data,
                  future_to_id, yielded, conv_id, output_file, list_status,
                  submitted, consumed, write_failed, current_url >>

\* lines 267-280: count the record; at the target start cancelling
Count ==
  /\ pc = "count"
  /\ saved_count' = saved_count + 1
  /\ IF saved_count + 1 >= max_to_save
     THEN pc' = "cancel" /\ cancel_pos' = 1
     ELSE pc' = "as_completed" /\ UNCHANGED cancel_pos
  /\ UNCHANGED << server, script, environ, call, viewer, finished, finish_order,
                  page, next_token, processed_ids_count, list_data,
                  future_to_id, yielded, conv_id, output_file, list_status,
                  submitted, consumed, write_failed, current_url >>

\* a cancel loop whose cancel() has no effect
CancelNext_NoEffect ==
  /\ pc = "cancel"
  /\ cancel_pos <= Len(future_to_id)
  /\ cancel_pos' = cancel_pos + 1
  /\ UNCHANGED << server, script, environ, call, viewer, finished, finish_order,
                  pc, saved_count, page, next_token,
                  processed_ids_count, list_data, future_to_id, yielded,
                  conv_id, output_file, list_status, submitted, consumed,
                  write_failed, current_url >>

\* lines 275-276: Future.cancel() on the next future of the batch; only a
\* future that has not started is cancelled
CancelNext ==
  /\ pc = "cancel"
  /\ cancel_pos <= Len(future_to_id)
  /\ future_to_id' =
       IF future_to_id[cancel_pos].state = "pending"
       THEN [future_to_id EXCEPT ![cancel_pos].state = "cancelled"]
       ELSE future_to_id
  /\ cancel_pos' = cancel_pos + 1
  /\ UNCHANGED << server, script, environ, call, viewer, finished, finish_order,
                  pc, saved_count, page, next_token,
                  processed_ids_count, list_data, yielded, conv_id,
                  output_file, list_status, submitted, consumed, write_failed,
                  current_url >>

\* the shutdown without the break of line 280
ShutdownNoWait_NoBreak ==
  /\ pc = "cancel"
  /\ cancel_pos > Len(future_to_id)
  /\ pc' = "as_completed"
  /\ UNCHANGED << server, script, environ, call, viewer, finished, finish_order,
                  saved_count, page, next_token, processed_ids_count,
                  list_data, future_to_id, yielded, conv_id, cancel_pos,
                  output_file, list_status, submitted, consumed, write_failed,
                  current_url >>

\* lines 278-280: executor.shutdown(wait=False); break
ShutdownNoWait ==
  /\ pc = "cancel"
  /\ cancel_pos > Len(future_to_id)
  /\ pc' = "exit_with"
  /\ finished' = {}
  /\ finish_order' = << >>
  /\ UNCHANGED << server, script, environ, call, viewer,
                  saved_count, page, next_token, processed_ids_count,
                  list_data, future_to_id, yielded, conv_id, cancel_pos,
                  output_file, list_status, submitted, consumed, write_failed,
                  current_url >>

\* line 238: as_completed has handed out every future of the batch
BatchDone ==
  /\ pc = "as_completed"
  /\ yielded = 1..Len(future_to_id)
  /\ pc' = "exit_with"
  /\ UNCHANGED << server, script, environ, call, viewer, finished, finish_order,
                  saved_count, page, next_token, processed_ids_count,
                  list_data, future_to_id, yielded, conv_id, cancel_pos,
                  output_file, list_status, submitted, consumed, write_failed,
                  current_url >>

\* the end of a batch that never follows the continuation token
ExitWith_IgnoresToken ==
  /\ pc = "exit_with"
  /\ \A i \in 1..Len(future_to_id) : future_to_id[i].state \in {"finished", "cancelled"}
  /\ pc' = "returned"
  /\ UNCHANGED << server, script, environ, call, viewer, finished, finish_order,
                  saved_count, page, next_token, processed_ids_count,
                  list_data, future_to_id, yielded, conv_id, cancel_pos,
                  output_file, list_status, submitted, consumed, write_failed,
                  current_url >>

\* a join that waits for every future to finish, cancelled ones included
ExitWith_WaitsForCancelled ==
  /\ pc = "exit_with"
  /\ \A i \in 1..Len(future_to_id) : future_to_id[i].state = "finished"
  /\ IF saved_count >= max_to_save
     THEN pc' = "returned" /\ UNCHANGED << next_token, page >>
     ELSE /\ next_token' = pages[list_data].nextToken
          /\ IF pages[list_data].nextToken = NoToken
             THEN pc' = "returned" /\ UNCHANGED page
             ELSE pc' = "while" /\ page' = page + 1
  /\ UNCHANGED << server, script, environ, call, viewer, finished, finish_order,
                  saved_count, processed_ids_count, list_data,
                  future_to_id, yielded, conv_id, cancel_pos, output_file,
                  list_status, submitted, consumed, write_failed, current_url >>

\* a with block that is left without joining the pool's threads
ExitWith_NoJoin ==
  /\ pc = "exit_with"
  /\ IF saved_count >= max_to_save
     THEN pc' = "returned" /\ UNCHANGED << next_token, page >>
     ELSE /\ next_token' = pages[list_data].nextToken
          /\ IF pages[list_data].nextToken = NoToken
             THEN pc' = "returned" /\ UNCHANGED page
             ELSE pc' = "while" /\ page' = page + 1
  /\ UNCHANGED << server, script, environ, call, viewer, finished, finish_order,
                  saved_count, processed_ids_count, list_data,
                  future_to_id, yielded, conv_id, cancel_pos, output_file,
                  list_status, submitted, consumed, write_failed, current_url >>

\* line 230: leaving the with block joins the pool's threads
\* (shutdown(wait=True)); lines 288-298 follow
ExitWith ==
  /\ pc = "exit_with"
  /\ \A i \in 1..Len(future_to_id) : future_to_id[i].state \in {"finished", "cancelled"}
  /\ IF saved_count >= max_to_save
     THEN pc' = "returned" /\ UNCHANGED << next_token, page >>
     ELSE /\ next_token' = pages[list_data].nextToken
          /\ IF pages[list_data].nextToken = NoToken
             THEN pc' = "returned" /\ UNCHANGED page
             ELSE pc' = "while" /\ page' = page + 1
  /\ UNCHANGED << server, script, environ, call, viewer, finished, finish_order,
                  saved_count, processed_ids_count, list_data,
                  future_to_id, yielded, conv_id, cancel_pos, output_file,
                  list_status, submitted, consumed, write_failed, current_url >>

Next ==
  \/ OpenOutput
  \/ CheckEnv
  \/ WhileCheck
  \/ ListOk
  \/ AsCompleted
  \/ ListRateLimited
  \/ Sleep
  \/ ListError
  \/ \E i \in 1..Len(future_to_id) : StartTask(i)
  \/ \E i \in 1..Len(future_to_id) : FinishTask(i)
  \/ \E i \in 1..Len(future_to_id) : ConsumeResult(i)
  \/ Write
  \/ Flush
  \/ OutputRaises
  \/ Count
  \/ CancelNext
  \/ ShutdownNoWait
  \/ BatchDone
  \/ ExitWith

Spec == Init /\ [][Next]_vars

(* ---------------------- fairness of the scheduling -------------------- *)
\* the steps of the coordinating thread and of the pool's threads
Coordinator ==
  \/ OpenOutput \/ CheckEnv
  \/ WhileCheck \/ ListOk \/ AsCompleted \/ ListRateLimited \/ Sleep \/ ListError
  \/ \E i \in 1..Len(future_to_id) : ConsumeResult(i)
  \/ Write \/ Flush \/ OutputRaises \/ Count \/ CancelNext \/ ShutdownNoWait
  \/ BatchDone \/ ExitWith
Workers ==
  \/ \E i \in 1..Len(future_to_id) : StartTask(i)
  \/ \E i \in 1..Len(future_to_id) : FinishTask(i)

\* every thread that can take a step eventually takes one, and every request
\* is eventually answered
LiveSpec ==
  InitWith(MaxLiveConvs) /\ [][Next]_vars /\ WF_vars(Coordinator) /\ WF_vars(Workers)

(* --------------------------- the main block --------------------------- *)
\* line 29, and the literal of line 400
DEFAULT_CONCURRENT_CALLS == 10

\* what the script prints
ConcurrencyWarning == "Warning: Concurrent calls must be positive. Using default value of 10."
MissingVariables == "Error: Missing required environment variables"
LimitReached == "Reached the specified limit."
LessThanLimit == "Found and saved less than the limit."

\* lines 379-392: the command lines the script is run with
CommandLines ==
  [parsed : {TRUE}, limit : (-1)..MaxMainConvs, concurrent : (-1)..MaxWorkers]

\* the kinds of conversation of the server the script is run against: those
\* of ConvKinds, and one whose updatedAt is not a timestamp
MainKinds == ConvKinds \cup {"in_badupdate"}

\* the state when the script starts (line 372), for a server with at most
\* MaxMainConvs conversations
MainInit ==
  /\ \E n \in 0..MaxMainConvs :
       \E kinds \in [1..n -> MainKinds] :
         /\ kind = kinds
         /\ pages \in ListPages(n, kinds)
  /\ args \in CommandLines
  /\ max_to_save = 0
  /\ MAX_CONCURRENT_CALLS = DEFAULT_CONCURRENT_CALLS
  /\ environ \in SUBSET Credentials
  /\ output_file \in ExistingContent
  /\ actual_saved_count = 0
  /\ stdout = << >>
  /\ stderr = << >>
  /\ finished = {}
  /\ finish_order = << >>
  /\ call = NoCall
  /\ NoViewer
  /\ pc = "main"
  /\ saved_count = 0
  /\ page = 1
  /\ next_token = NoToken
  /\ processed_ids_count = 0
  /\ current_url = NoToken
  /\ list_data = 0
  /\ future_to_id = << >>
  /\ yielded = {}
  /\ conv_id = 0
  /\ cancel_pos = 0
  /\ list_status = "none"
  /\ submitted = << >>
  /\ consumed = {}
  /\ write_failed = {}

\* a main block that takes --concurrent as it is
SetConcurrency_KeepsArgument ==
  /\ pc = "main"
  /\ MAX_CONCURRENT_CALLS' = args.concurrent
  /\ pc' = "environment_check"
  /\ UNCHANGED << pages, kind, max_to_save, args, actual_saved_count, stdout, stderr,
                  environ, call, viewer, finished, finish_order,
                  saved_count, page, next_token, processed_ids_count,
                  list_data, future_to_id, yielded, conv_id, cancel_pos,
                  output_file, list_status, submitted, consumed, write_failed,
                  current_url >>

\* lines 394-400: the global concurrency limit
SetConcurrency ==
  /\ pc = "main"
  /\ IF args.concurrent > 0
     THEN /\ MAX_CONCURRENT_CALLS' = args.concurrent
          /\ UNCHANGED stderr
     ELSE /\ stderr' = Append(stderr, ConcurrencyWarning)
          /\ MAX_CONCURRENT_CALLS' = DEFAULT_CONCURRENT_CALLS
  /\ pc' = "environment_check"
  /\ UNCHANGED << pages, kind, max_to_save, args, actual_saved_count, stdout,
                  environ, call, viewer, finished, finish_order,
                  saved_count, page, next_token, processed_ids_count,
                  list_data, future_to_id, yielded, conv_id, cancel_pos,
                  output_file, list_status, submitted, consumed, write_failed,
                  current_url >>

\* lines 402-419: sys.exit(1) when a credential is missing, the call of
\* save_conversations_to_jsonl(args.output, args.limit) otherwise
EnvironmentCheck ==
  /\ pc = "environment_check"
  /\ IF AllSet(environ)
     THEN /\ max_to_save' = args.limit
          /\ pc' = "open"
          /\ UNCHANGED stderr
     ELSE /\ stderr' = Append(stderr, MissingVariables)
          /\ pc' = "exit"
          /\ UNCHANGED max_to_save
  /\ UNCHANGED << pages, kind, MAX_CONCURRENT_CALLS, args, actual_saved_count, stdout,
                  environ, call, viewer, finished, finish_order,
                  saved_count, page, next_token, processed_ids_count,
                  list_data, future_to_id, yielded, conv_id, cancel_pos,
                  output_file, list_status, submitted, consumed, write_failed,
                  current_url >>

\* lines 343-360: what save_conversations_to_jsonl returns: the count
\* fetch_conversations_and_write returned, 0 when it raised
Returned == IF pc = "returned" THEN saved_count ELSE 0

\* a summary that reports the limit as not reached whenever the count is
\* not the limit
SummaryLine_NotEqualIsLess(count, limit) ==
  IF count = limit THEN << LimitReached >> ELSE << LessThanLimit >>

\* lines 425-428: the line the summary adds
SummaryLine(count, limit) ==
  IF count = limit THEN << LimitReached >>
  ELSE IF count < limit THEN << LessThanLimit >>
  ELSE << >>

\* lines 419-428: save_conversations_to_jsonl has returned; the summary
Summary ==
  /\ args.parsed
  /\ pc \in {"returned", "raised"}
  /\ actual_saved_count' = Returned
  /\ stdout' = stdout \o SummaryLine(Returned, args.limit)
  /\ pc' = "done"
  /\ UNCHANGED << server, args, stderr,
                  environ, call, viewer, finished, finish_order,
                  saved_count, page, next_token, processed_ids_count,
                  list_data, future_to_id, yielded, conv_id, cancel_pos,
                  output_file, list_status, submitted, consumed, write_failed,
                  current_url >>

MainNext ==
  \/ SetConcurrency
  \/ EnvironmentCheck
  \/ Summary
  \/ Next

\* the script run from its command line
MainSpec == MainInit /\ [][MainNext]_vars

(* ---------------------- malformed list entries ------------------------ *)
\* a dict without one of its keys
DropKey(dict, key) == [k \in DOMAIN dict \ {key} |-> dict[k]]

\* the pages ps with one key missing from one entry
OneKeyMissing(ps) ==
  UNION { UNION { { [ps EXCEPT ![p].conversations[i] = DropKey(@, key)]
                    : key \in {"id", "createdAt", "updatedAt"} }
                  : i \in 1..Len(ps[p].conversations) }
          : p \in 1..Len(ps) }

\* what the list endpoint may answer: the pages ps, or ps with one key
\* missing from one entry
MalformedPages(ps) == {ps} \cup OneKeyMissing(ps)

\* the state when save_conversations_to_jsonl is called against a server
\* whose list may hold a malformed entry
MalformedInit ==
  /\ \E n \in 0..MaxListed :
       \E kinds \in [1..n -> {"in", "out"}] :
         /\ kind = kinds
         /\ \E ps \in ListPages(n, kinds) : pages \in MalformedPages(ps)
  /\ max_to_save \in 1..MaxTarget
  /\ MAX_CONCURRENT_CALLS \in 1..MaxWorkers
  /\ environ = Credentials
  /\ output_file = << >>
  /\ finished = {}
  /\ finish_order = << >>
  /\ call = NoCall
  /\ NoViewer
  /\ NoScript
  /\ pc = "open"
  /\ saved_count = 0
  /\ page = 1
  /\ next_token = NoToken
  /\ processed_ids_count = 0
  /\ current_url = NoToken
  /\ list_data = 0
  /\ future_to_id = << >>
  /\ yielded = {}
  /\ conv_id = 0
  /\ cancel_pos = 0
  /\ list_status = "none"
  /\ submitted = << >>
  /\ consumed = {}
  /\ write_failed = {}

\* the pipeline against a list that may hold a malformed entry
MalformedSpec == MalformedInit /\ [][Next]_vars

(* -------------------- fetch_messages on its own ----------------------- *)
\* the raw messages the messages endpoint may hold for a conversation
RawMessages ==
  { RawMsg("text", d, t, [text |-> "hi"]) : d \in {"incoming", "outgoing"},
                                            t \in {NullTimestamp, 1, 2} }
  \cup { RawMsg("text", "incoming", 1, NoPayload),
         RawMsg("text", "outgoing", 2, [image |-> "url"]),
         RawMsg("card", "incoming", 2, [text |-> "hi"]),
         RawMsg(None, "outgoing", 1, NoPayload),
         [direction |-> "incoming", updatedAt |-> NullTimestamp,
          payload |-> [text |-> "hi"]] }

\* the sequences of at most n raw messages
RECURSIVE RawSeqs(_)
RawSeqs(n) ==
  IF n = 0 THEN { << >> }
  ELSE RawSeqs(n - 1) \cup
       { Append(q, m) : q \in { r \in RawSeqs(n - 1) : Len(r) = n - 1 },
                        m \in RawMessages }

OkPage(messages, nextToken) ==
  [fail |-> FALSE, nextToken |-> nextToken, messages |-> messages]
FailingPage == [fail |-> TRUE, nextToken |-> NoToken, messages |-> << >>]

\* the nextToken a response may carry when the endpoint has more to give
MoreTokens == {2, 5, EmptyToken}

\* What the endpoint may answer for the messages msgs, in any order of pages
\* and of messages: one page; two pages cut anywhere; three pages of one
\* message or more each; and the request of the first or of the second page
\* failing.
ServerPages(msgs) ==
  LET n == Len(msgs)
  IN { << OkPage(msgs, NoToken) >>, << FailingPage >> }
     \cup { << OkPage(msgs, t), FailingPage >> : t \in MoreTokens }
     \cup { << OkPage(SubSeq(msgs, 1, c), t), OkPage(SubSeq(msgs, c + 1, n), NoToken) >>
            : c \in 0..n, t \in MoreTokens }
     \cup { << OkPage(SubSeq(msgs, 1, c), t), OkPage(SubSeq(msgs, c + 1, d), u),
               OkPage(SubSeq(msgs, d + 1, n), NoToken) >>
            : c \in 1..(n - 2), d \in 2..(n - 1), t \in MoreTokens, u \in MoreTokens }

\* a call of fetch_messages(conversation_id, createdAt, updatedAt) with an
\* environment and a server of its own
FetchInit ==
  /\ \E env \in SUBSET Credentials :
       \E msgs \in RawSeqs(MaxMessages) :
         \E sp \in ServerPages(msgs) :
           call = [environ |-> env, server_pages |-> sp, returned |-> FALSE,
                   result |-> NoResult, requests |-> << >>]
  /\ NoRun
  /\ NoViewer

\* lines 33-159: the call runs and returns its result
FetchMessagesCall ==
  /\ ~call.returned
  /\ call' = [call EXCEPT
                !.returned = TRUE,
                !.result = fetch_messages(call.environ, call.server_pages, 1, "T1", "T2"),
                !.requests = IF AllSet(call.environ)
                             THEN RequestTokens(call.server_pages, 1, NoToken)
                             ELSE << >>]
  /\ UNCHANGED << server, script, environ, viewer, finished, finish_order, pc,
                  saved_count, page, next_token, processed_ids_count,
                  list_data, future_to_id, yielded, conv_id, cancel_pos,
                  output_file, list_status, submitted, consumed, write_failed,
                  current_url >>

FetchSpec == FetchInit /\ [][FetchMessagesCall]_vars

(* ------------------------ JSON text of a record ----------------------- *)
\* The text of a line is a sequence of tokens: punctuation, keys, values
\* (a string, an array or an object carried whole), the newline, and the
\* stump of a token that was cut off.
LBrace == [t |-> "{"]
RBrace == [t |-> "}"]
Colon == [t |-> ":"]
Comma == [t |-> ","]
Newline == [t |-> "\n"]
CutToken == [t |-> "cut"]
KeyToken(k) == [t |-> "key", k |-> k]
StringToken(s) == [t |-> "string", s |-> s]
ArrayToken(a) == [t |-> "array", a |-> a]
ObjectToken(o) == [t |-> "object", o |-> o]
NullToken == [t |-> "null"]

\* the keys of a record in the order line 253 inserts them
KeyOrder == << "conversation_id", "messages", "metadata" >>

ValueToken(key, v) ==
  CASE key = "conversation_id" -> StringToken(v)
    [] key = "messages" -> ArrayToken(v)
    [] OTHER -> ObjectToken(v)

\* the members of a dict from the i-th key on, "key: value" separated by ", "
RECURSIVE DumpMembers(_, _, _)
DumpMembers(d, i, first) ==
  IF i > Len(KeyOrder) THEN << >>
  ELSE IF KeyOrder[i] \notin DOMAIN d THEN DumpMembers(d, i + 1, first)
  ELSE (IF first THEN << >> ELSE << Comma >>)
       \o << KeyToken(KeyOrder[i]), Colon, ValueToken(KeyOrder[i], d[KeyOrder[i]]) >>
       \o DumpMembers(d, i + 1, FALSE)

\* json.dumps(output_data) (line 263)
json_dumps(d) == << LBrace >> \o DumpMembers(d, 1, TRUE) \o << RBrace >>

\* line 263: the line written for a record
RecordLine(d) == json_dumps(d) \o << Newline >>

\* str.strip(): the text without the white space at its ends
RECURSIVE strip(_)
strip(text) ==
  IF text = << >> THEN << >>
  ELSE IF text[1] = Newline THEN strip(Tail(text))
  ELSE IF text[Len(text)] = Newline THEN strip(SubSeq(text, 1, Len(text) - 1))
  ELSE text

\* what json.loads raises on a text that is not JSON
JSONDecodeError == [raised |-> "JSONDecodeError"]

IsValue(token) == token.t \in {"string", "array", "object", "null"}

\* the value a value token stands for
ValueOf(token) ==
  CASE token.t = "string" -> token.s
    [] token.t = "array" -> token.a
    [] token.t = "object" -> token.o
    [] OTHER -> None

\* the members between the braces parsed into a dict, or JSONDecodeError:
\* key, colon, value, and then the end or a comma and further members
RECURSIVE ParseMembers(_)
ParseMembers(text) ==
  IF Len(text) < 3 \/ text[1].t # "key" \/ text[2] # Colon \/ ~IsValue(text[3])
  THEN JSONDecodeError
  ELSE IF Len(text) = 3 THEN (text[1].k :> ValueOf(text[3]))
  ELSE IF text[4] # Comma THEN JSONDecodeError
  ELSE LET rest == ParseMembers(SubSeq(text, 5, Len(text)))
       IN IF rest = JSONDecodeError THEN JSONDecodeError
          ELSE (text[1].k :> ValueOf(text[3])) @@ rest

\* json.loads(text): [dict |-> TRUE, value |-> the dict] for an object,
\* [dict |-> FALSE] for any other JSON value, JSONDecodeError otherwise
json_loads(text) ==
  IF Len(text) = 1 /\ IsValue(text[1]) THEN [dict |-> FALSE]
  ELSE IF Len(text) >= 2 /\ text[1] = LBrace /\ text[Len(text)] = RBrace
  THEN IF Len(text) = 2 THEN [dict |-> TRUE, value |-> << >>]
       ELSE LET members == ParseMembers(SubSeq(text, 2, Len(text) - 1))
            IN IF members = JSONDecodeError THEN JSONDecodeError
               ELSE [dict |-> TRUE, value |-> members]
  ELSE JSONDecodeError

(* ------------------ the viewer: load_conversations -------------------- *)

\* records a file may hold: two the pipeline wrote, one whose messages are
\* empty, one that has no messages at all
SavedRecord(c) ==
  OutputData(fetch_messages(Credentials, MessagePages("in"), c, "T1", "T2"))
FileRecords ==
  << SavedRecord(1), SavedRecord(2),
     [conversation_id |-> 3, messages |-> << >>,
      metadata |-> [createdDate |-> "T1", duration |-> 15, tags |-> << "unread" >>]],
     [conversation_id |-> 4] >>

\* what is left of a text that was cut: a proper prefix, cut between two
\* tokens or within a token
Truncations(text) ==
  { SubSeq(text, 1, j) : j \in 0..(Len(text) - 1) }
  \cup { Append(SubSeq(text, 1, j), CutToken)
         : j \in { i \in 0..(Len(text) - 1) : text[i + 1].t = "key" \/ IsValue(text[i + 1]) } }

\* what a line may hold before its newline: a record, a record cut short
\* (nothing at all included), or a JSON value that is no object
LineBodies ==
  { json_dumps(FileRecords[i]) : i \in 1..Len(FileRecords) }
  \cup Truncations(json_dumps(SavedRecord(1)))
  \cup { << NullToken >> }

\* the files of n lines: every line ends with a newline, except perhaps the
\* last one
FilesOf(n) ==
  { [i \in 1..n |-> IF i < n \/ terminated THEN body[i] \o << Newline >> ELSE body[i]]
    : body \in { b \in [1..n -> LineBodies] : n = 0 \/ b[n] # << >> },
      terminated \in BOOLEAN }

\* the viewer is constructed for a file (lines 17-23 of viewChats.py)
ViewerInit ==
  /\ \E n \in 0..MaxLines : \E lines \in FilesOf(n) :
       \E exists \in BOOLEAN :
         /\ exists \/ n = 0
         /\ filename = [exists |-> exists, lines |-> lines]
  /\ conversations = << >>
  /\ current_index = 0
  /\ view = [pc |-> "load_conversations", line_no |-> 0]
  /\ call = NoCall
  /\ NoRun

\* lines 27-30: the file is opened, or FileNotFoundError is raised
OpenFile ==
  /\ view.pc = "load_conversations"
  /\ view' = IF filename.exists
             THEN [pc |-> "for_line", line_no |-> 1]
             ELSE [pc |-> "FileNotFoundError", line_no |-> 0]
  /\ UNCHANGED << server, script, environ, call, filename, conversations, current_index,
                  finished, finish_order, pc, saved_count, page, next_token,
                  processed_ids_count, list_data, future_to_id, yielded, conv_id,
                  cancel_pos, output_file, list_status, submitted, consumed,
                  write_failed, current_url >>

\* line 34: conversation.get("messages") is truthy
HasMessages(conversation) ==
  /\ "messages" \in DOMAIN conversation
  /\ conversation["messages"] # << >>

\* a loop that stops at the first line that is not JSON
LoadLine_StopsAtBadLine ==
  /\ view.pc = "for_line"
  /\ view.line_no <= Len(filename.lines)
  /\ LET loaded == json_loads(strip(filename.lines[view.line_no]))
     IN IF loaded = JSONDecodeError
        THEN /\ view' = [view EXCEPT !.line_no = Len(filename.lines) + 1]
             /\ UNCHANGED conversations
        ELSE IF ~loaded.dict
        THEN /\ view' = [view EXCEPT !.pc = "AttributeError"]
             /\ UNCHANGED conversations
        ELSE /\ view' = [view EXCEPT !.line_no = @ + 1]
             /\ conversations' = IF HasMessages(loaded.value)
                                 THEN Append(conversations, loaded.value)
                                 ELSE conversations
  /\ UNCHANGED << server, script, environ, call, filename, current_index,
                  finished, finish_order, pc, saved_count, page, next_token,
                  processed_ids_count, list_data, future_to_id, yielded, conv_id,
                  cancel_pos, output_file, list_status, submitted, consumed,
                  write_failed, current_url >>

\* lines 31-37: one turn of the loop over the lines of the file; a value that
\* is no dict has no get and AttributeError leaves the method
LoadLine ==
  /\ view.pc = "for_line"
  /\ view.line_no <= Len(filename.lines)
  /\ LET loaded == json_loads(strip(filename.lines[view.line_no]))
     IN IF loaded = JSONDecodeError
        THEN /\ view' = [view EXCEPT !.line_no = @ + 1]
             /\ UNCHANGED conversations
        ELSE IF ~loaded.dict
        THEN /\ view' = [view EXCEPT !.pc = "AttributeError"]
             /\ UNCHANGED conversations
        ELSE /\ view' = [view EXCEPT !.line_no = @ + 1]
             /\ conversations' = IF HasMessages(loaded.value)
                                 THEN Append(conversations, loaded.value)
                                 ELSE conversations
  /\ UNCHANGED << server, script, environ, call, filename, current_index,
                  finished, finish_order, pc, saved_count, page, next_token,
                  processed_ids_count, list_data, future_to_id, yielded, conv_id,
                  cancel_pos, output_file, list_status, submitted, consumed,
                  write_failed, current_url >>

\* lines 39-40: the end of the file
EndOfFile ==
  /\ view.pc = "for_line"
  /\ view.line_no > Len(filename.lines)
  /\ view' = [view EXCEPT !.pc = IF conversations = << >> THEN "ValueError" ELSE "loaded"]
  /\ UNCHANGED << server, script, environ, call, filename, conversations, current_index,
                  finished, finish_order, pc, saved_count, page, next_token,
                  processed_ids_count, list_data, future_to_id, yielded, conv_id,
                  cancel_pos, output_file, list_status, submitted, consumed,
                  write_failed, current_url >>

ViewerNext == OpenFile \/ LoadLine \/ EndOfFile

ViewerSpec == ViewerInit /\ [][ViewerNext]_vars

(* ------------- the viewer loading the file of a finished run ---------- *)
\* the kinds of conversation of these runs; an "empty" one has no message
RoundTripKinds == {"in", "out", "err", "empty"}

\* the texts a file may be: its lines one after the other, a complete line
\* whole, of a torn line a proper prefix
RECURSIVE FileTexts(_)
FileTexts(file) ==
  IF file = << >> THEN { << >> }
  ELSE LET first == IF Head(file).complete
                    THEN { RecordLine(Head(file).record) }
                    ELSE Truncations(RecordLine(Head(file).record))
       IN { body \o rest : body \in first, rest \in FileTexts(Tail(file)) }

\* line 31 of viewChats.py, "for line in f": the text cut after each
\* newline; line is the part of the current line read so far
RECURSIVE SplitLines(_, _)
SplitLines(text, line) ==
  IF text = << >> THEN (IF line = << >> THEN << >> ELSE << line >>)
  ELSE IF Head(text) = Newline
  THEN << Append(line, Newline) >> \o SplitLines(Tail(text), << >>)
  ELSE SplitLines(Tail(text), Append(line, Head(text)))

\* the state when save_conversations_to_jsonl is called in a run whose
\* file the viewer is to load
RoundTripInit ==
  /\ \E n \in 0..MaxViewed :
       \E kinds \in [1..n -> RoundTripKinds] :
         /\ kind = kinds
         /\ pages \in ListPages(n, kinds)
  /\ max_to_save \in 1..MaxTarget
  /\ MAX_CONCURRENT_CALLS \in 1..MaxWorkers
  /\ environ = Credentials
  /\ output_file \in ExistingContent
  /\ finished = {}
  /\ finish_order = << >>
  /\ call = NoCall
  /\ NoViewer
  /\ NoScript
  /\ pc = "open"
  /\ saved_count = 0
  /\ page = 1
  /\ next_token = NoToken
  /\ processed_ids_count = 0
  /\ current_url = NoToken
  /\ list_data = 0
  /\ future_to_id = << >>
  /\ yielded = {}
  /\ conv_id = 0
  /\ cancel_pos = 0
  /\ list_status = "none"
  /\ submitted = << >>
  /\ consumed = {}
  /\ write_failed = {}

\* lines 17-23 of viewChats.py: the viewer is constructed for the file the
\* run has left
StartViewer ==
  /\ pc = "returned"
  /\ view.pc = "none"
  /\ \E text \in FileTexts(output_file) :
       filename' = [exists |-> TRUE, lines |-> SplitLines(text, << >>)]
  /\ conversations' = << >>
  /\ current_index' = 0
  /\ view' = [pc |-> "load_conversations", line_no |-> 0]
  /\ UNCHANGED << server, script, environ, call,
                  finished, finish_order, pc, saved_count, page, next_token,
                  processed_ids_count, list_data, future_to_id, yielded, conv_id,
                  cancel_pos, output_file, list_status, submitted, consumed,
                  write_failed, current_url >>

RoundTripNext == Next \/ StartViewer \/ OpenFile \/ LoadLine \/ EndOfFile

\* a run of the pipeline, and then the viewer loading its file
RoundTripSpec == RoundTripInit /\ [][RoundTripNext]_vars

(* --------------------- the viewer: manage_tags ------------------------ *)

\* the terminal heights explored
Heights == 7..9

\* the tag lists a loaded record may carry
TagLists == { << >>, << "unread" >>, << "read" >>, << "unread", "read" >> }

\* a loaded record: one the pipeline wrote, with the tags the viewer gave it
\* since, or one of another origin without tags or without metadata
LoadedRecords(c) ==
  { [SavedRecord(c) EXCEPT !.metadata.tags = tags] : tags \in TagLists }
  \cup { [conversation_id |-> c, messages |-> SavedRecord(c).messages],
         [conversation_id |-> c, messages |-> SavedRecord(c).messages,
          metadata |-> [createdDate |-> "T1"]] }

\* the tags of a record
TagsOf(conversation) ==
  IF "metadata" \in DOMAIN conversation /\ "tags" \in DOMAIN conversation.metadata
  THEN conversation.metadata.tags
  ELSE << >>

\* tag is an element of the list tags
InList(tag, tags) == \E i \in 1..Len(tags) : tags[i] = tag

\* the list without its elements equal to tag
WithoutTag(tags, tag) == SelectSeq(tags, LAMBDA t : t # tag)

\* list.remove(tag): the list without the first element equal to tag
ListRemove(tags, tag) ==
  LET first == CHOOSE i \in 1..Len(tags) :
                 tags[i] = tag /\ \A j \in 1..(i - 1) : tags[j] # tag
  IN SubSeq(tags, 1, first - 1) \o SubSeq(tags, first + 1, Len(tags))

\* lines 15-18: the record with a metadata dict and a tags list
WithMetadataTags(conversation) ==
  IF "metadata" \notin DOMAIN conversation
  THEN conversation @@ ("metadata" :> ("tags" :> << >>))
  ELSE IF "tags" \notin DOMAIN conversation.metadata
  THEN [conversation EXCEPT !.metadata = @ @@ ("tags" :> << >>)]
  ELSE conversation

\* the records with the tags of the record at index (counted from 0) set
SetTags(convs, index, tags) ==
  [convs EXCEPT ![index + 1] = [@ EXCEPT !.metadata = [@ EXCEPT !.tags = tags]]]

\* data.get_all_tags(): the tags of all records, each once
RECURSIVE Unique(_)
Unique(tags) ==
  IF tags = << >> THEN << >>
  ELSE LET rest == Unique(SubSeq(tags, 1, Len(tags) - 1))
       IN IF InList(tags[Len(tags)], rest) THEN rest ELSE Append(rest, tags[Len(tags)])
RECURSIVE AllTagsOf(_)
AllTagsOf(convs) ==
  IF convs = << >> THEN << >> ELSE TagsOf(Head(convs)) \o AllTagsOf(Tail(convs))
get_all_tags(convs) == Unique(AllTagsOf(convs))

\* data.add_tag(tag): the tag is added to the tags of the current record
add_tag(convs, index, tag) ==
  IF InList(tag, TagsOf(convs[index + 1])) THEN convs
  ELSE SetTags(convs, index, Append(TagsOf(convs[index + 1]), tag))

\* data.remove_tag(tag): the tag is removed from the tags of the current
\* record
remove_tag(convs, index, tag) ==
  SetTags(convs, index, WithoutTag(TagsOf(convs[index + 1]), tag))

\* the file rewritten with the records the viewer holds, when tags changed
Rewritten(convs) ==
  [exists |-> TRUE, lines |-> [i \in 1..Len(convs) |-> RecordLine(convs[i])]]

CreateNewTag == "+ Create new tag"

\* what prompt_for_new_tag returns: None, or the text that was entered
NewTagNames == {None, "vip", "unread"}

\* lines 29 and 111: the number of rows of the list window
ListCount(display_tags, height) ==
  IF Len(display_tags) < height - 6 THEN Len(display_tags) ELSE height - 6

\* the viewer has loaded its file and manage_tags(stdscr, data, height,
\* width) is called
TagsInit ==
  /\ \E n \in 1..MaxLoaded :
       /\ conversations \in { convs \in [1..n -> UNION { LoadedRecords(c) : c \in 1..n }] :
                                \A i \in 1..n : convs[i].conversation_id = i }
       /\ current_index \in 0..(n - 1)
  /\ \E height \in Heights : view = [pc |-> "manage_tags", height |-> height]
  /\ filename = Rewritten(conversations)
  /\ call = NoCall
  /\ NoRun

\* what the actions of manage_tags leave alone
TagsFrame ==
  UNCHANGED << server, script, environ, call, finished, finish_order, pc, saved_count,
               page, next_token, processed_ids_count, list_data, future_to_id,
               yielded, conv_id, cancel_pos, output_file, list_status, submitted,
               consumed, write_failed, current_url >>

\* an entry that prepares the first record instead of the current one
ManageTags_FirstRecord ==
  /\ view.pc = "manage_tags"
  /\ IF conversations = << >> \/ current_index >= Len(conversations)
     THEN /\ view' = [view EXCEPT !.pc = "returned"]
          /\ UNCHANGED conversations
     ELSE /\ conversations' = [conversations EXCEPT ![1] = WithMetadataTags(@)]
          /\ LET all_tags == get_all_tags(conversations')
                 display_tags == Append(all_tags, CreateNewTag)
             IN view' = [pc |-> "getch", height |-> view.height,
                         all_tags |-> all_tags, display_tags |-> display_tags,
                         current_tags |-> TagsOf(conversations'[1]),
                         aliased |-> TRUE,
                         list_count |-> ListCount(display_tags, view.height),
                         current_selection |-> 0, scroll_offset |-> 0]
  /\ UNCHANGED << filename, current_index >>
  /\ TagsFrame

\* lines 10-45: manage_tags up to its loop
ManageTags ==
  /\ view.pc = "manage_tags"
  /\ IF conversations = << >> \/ current_index >= Len(conversations)
     THEN /\ view' = [view EXCEPT !.pc = "returned"]
          /\ UNCHANGED conversations
     ELSE /\ conversations' =
               [conversations EXCEPT ![current_index + 1] = WithMetadataTags(@)]
          /\ LET all_tags == get_all_tags(conversations')
                 display_tags == Append(all_tags, CreateNewTag)
             IN view' = [pc |-> "getch", height |-> view.height,
                         all_tags |-> all_tags, display_tags |-> display_tags,
                         current_tags |-> TagsOf(conversations'[current_index + 1]),
                         aliased |-> TRUE,
                         list_count |-> ListCount(display_tags, view.height),
                         current_selection |-> 0, scroll_offset |-> 0]
  /\ UNCHANGED << filename, current_index >>
  /\ TagsFrame

\* lines 76-77: the Escape key
KeyEscape ==
  /\ view.pc = "getch"
  /\ view' = [view EXCEPT !.pc = "returned"]
  /\ UNCHANGED << filename, conversations, current_index >>
  /\ TagsFrame

\* lines 78-85: the Enter key; on "+ Create new tag" a tag is asked for and,
\* when it is new, added to the current record
KeyEnter ==
  /\ view.pc = "getch"
  /\ view' = [view EXCEPT !.pc = "returned"]
  /\ IF view.current_selection = Len(view.display_tags) - 1
     THEN \E new_tag \in NewTagNames :
            IF new_tag # None /\ ~InList(new_tag, view.all_tags)
            THEN /\ conversations' = add_tag(conversations, current_index, new_tag)
                 /\ filename' = Rewritten(conversations')
            ELSE UNCHANGED << filename, conversations >>
     ELSE UNCHANGED << filename, conversations >>
  /\ UNCHANGED current_index
  /\ TagsFrame

\* lines 86-95: the space bar toggles the selected tag. current_tags is the
\* tags list of the record as long as data.add_tag and data.remove_tag
\* change that list in place; it is a list of its own once one of them has
\* put a new list into the record.
KeySpace ==
  /\ view.pc = "getch"
  /\ view.current_selection < Len(view.display_tags) - 1
  /\ LET tag == view.display_tags[view.current_selection + 1]
         removing == InList(tag, view.current_tags)
         changed == IF removing THEN remove_tag(conversations, current_index, tag)
                    ELSE add_tag(conversations, current_index, tag)
     IN /\ filename' = Rewritten(changed)
        /\ \E in_place \in (IF view.aliased THEN BOOLEAN ELSE {FALSE}) :
             IF in_place
             THEN LET tags == TagsOf(changed[current_index + 1])
                  IN IF removing /\ ~InList(tag, tags)
                     THEN /\ conversations' = changed
                          /\ view' = [view EXCEPT !.pc = "ValueError", !.current_tags = tags]
                     ELSE LET after == IF removing THEN ListRemove(tags, tag)
                                       ELSE Append(tags, tag)
                          IN /\ conversations' = SetTags(changed, current_index, after)
                             /\ view' = [view EXCEPT !.current_tags = after]
             ELSE /\ conversations' = changed
                  /\ view' = [view EXCEPT
                                !.aliased = FALSE,
                                !.current_tags = IF removing THEN ListRemove(@, tag)
                                                 ELSE Append(@, tag)]
  /\ UNCHANGED current_index
  /\ TagsFrame

\* lines 96-101: the down key
KeyDown ==
  /\ view.pc = "getch"
  /\ view.current_selection < Len(view.display_tags) - 1
  /\ view' = [view EXCEPT
                !.current_selection = @ + 1,
                !.scroll_offset =
                   IF view.current_selection + 1 >= @ + view.list_count THEN @ + 1 ELSE @]
  /\ UNCHANGED << filename, conversations, current_index >>
  /\ TagsFrame

\* lines 102-107: the up key
KeyUp ==
  /\ view.pc = "getch"
  /\ view.current_selection > 0
  /\ view' = [view EXCEPT
                !.current_selection = @ - 1,
                !.scroll_offset =
                   IF view.current_selection - 1 < @ THEN @ - 1 ELSE @]
  /\ UNCHANGED << filename, conversations, current_index >>
  /\ TagsFrame

\* lines 108-123: the terminal is resized
KeyResize ==
  /\ view.pc = "getch"
  /\ \E height \in Heights :
       view' = [view EXCEPT !.height = height,
                            !.list_count = ListCount(view.display_tags, height)]
  /\ UNCHANGED << filename, conversations, current_index >>
  /\ TagsFrame

TagsNext ==
  \/ ManageTags
  \/ KeyEscape
  \/ KeyEnter
  \/ KeySpace
  \/ KeyDown
  \/ KeyUp
  \/ KeyResize

TagsSpec == TagsInit /\ [][TagsNext]_vars

(* ------------------------ the viewer: run ----------------------------- *)
\* Python's max and min of two numbers
max(a, b) == IF a >= b THEN a ELSE b
min(a, b) == IF a <= b THEN a ELSE b

\* stdscr.getmaxyx() (line 152): the sizes the terminal may have; in a
\* terminal of 40 columns the controls do not fit into the header line
RunHeights == {6, 10, 14}
RunWidths == {40, 60, 80}

\* line 207
Controls == "h/l:Prev/Next j/k:Up/Down g/G:Top/Bottom f:Search q:Quit"

\* the texts of the messages shown, each as its words: a greeting, and a
\* sentence of 61 characters
ShortText == << "hello" >>
LongText ==
  << "the", "quick", "brown", "fox", "jumps", "over", "the", "lazy", "dog",
     "and", "runs", "far", "away" >>

\* the messages a loaded conversation may hold
ShownMessages ==
  { << [direction |-> "incoming", text |-> ShortText] >>,
    << [direction |-> "incoming", text |-> LongText],
       [direction |-> "outgoing", text |-> LongText] >>,
    << [direction |-> "incoming", text |-> LongText],
       [direction |-> "outgoing", text |-> ShortText],
       [direction |-> "incoming", text |-> LongText],
       [direction |-> "outgoing", text |-> LongText] >> }

\* the conversations the viewer may hold; a file may hold an id twice
ShownRecords ==
  [conversation_id : 1..MaxShown, messages : ShownMessages]

\* len(textwrap.wrap(text, width)) (line 232) for words no longer than the
\* width: a word goes on the current line of cur_len characters when it
\* fits after a blank, and opens a new line otherwise
RECURSIVE WrappedLines(_, _, _)
WrappedLines(words, width, cur_len) ==
  IF words = << >> THEN (IF cur_len > 0 THEN 1 ELSE 0)
  ELSE IF cur_len = 0 THEN WrappedLines(Tail(words), width, Len(Head(words)))
  ELSE IF cur_len + 1 + Len(Head(words)) <= width
  THEN WrappedLines(Tail(words), width, cur_len + 1 + Len(Head(words)))
  ELSE 1 + WrappedLines(words, width, 0)

\* lines 220-250: the lines of one message, its timestamp line and the
\* lines of its wrapped text ("[Empty message]" when there is none)
FormattedLines(msg, max_width) ==
  LET prefix == IF msg.direction = "outgoing" THEN "Bot: " ELSE "User: "
      wrapped_lines == WrappedLines(msg.text, max_width - Len(prefix), 0)
  IN 1 + (IF wrapped_lines = 0 THEN 1 ELSE wrapped_lines)

\* lines 216-260: total_lines, the lines of all messages and the two lines
\* of the end marker
RECURSIVE TotalLines(_, _)
TotalLines(messages, max_width) ==
  IF messages = << >> THEN 2
  ELSE FormattedLines(Head(messages), max_width) + TotalLines(Tail(messages), max_width)

\* line 263: max_scroll
MaxScroll(conversation, height, max_width) ==
  max(0, TotalLines(conversation.messages, max_width) - (height - 4))

\* find_conversation_by_id found nothing (Python's None)
NotFound == -1

\* lines 132-137: the index of the first conversation with the id
find_conversation_by_id(convs, conversation_id) ==
  IF \E i \in 1..Len(convs) : convs[i].conversation_id = conversation_id
  THEN (CHOOSE i \in 1..Len(convs) :
          /\ convs[i].conversation_id = conversation_id
          /\ \A j \in 1..(i - 1) : convs[j].conversation_id # conversation_id) - 1
  ELSE NotFound

\* what search_conversation may end with: Escape, or Enter on the text
\* typed (0 stands for no text, the other numbers for an id)
SearchInputs == [enter : BOOLEAN, search_text : 0..(MaxShown + 1)]

\* the keys getch may return (line 158); "other" is any key without a
\* branch, KEY_RESIZE included
RunKeys ==
  { "q", "n", "p", "j", "k", " ", "PPAGE", "g", "G", "y", "T", "f", "other" }

\* the viewer has loaded its file and curses.wrapper calls run (lines
\* 17-23 and 307-310)
RunInit ==
  /\ \E n \in 1..MaxShown : conversations \in [1..n -> ShownRecords]
  /\ current_index = 0
  /\ view = [pc |-> "redraw", scroll_position |-> 0, max_width |-> 80,
             height |-> 0, width |-> 0]
  /\ filename = Rewritten(conversations)
  /\ call = NoCall
  /\ NoRun

\* a redraw that leaves scroll_position as the keys set it
Redraw_NoClamp ==
  /\ view.pc = "redraw"
  /\ \E height \in RunHeights : \E width \in RunWidths :
       LET max_width == min(width - 2, 100)
       IN view' = [view EXCEPT
                     !.pc = IF width - Len(Controls) - 1 < 0
                            THEN "curses.error" ELSE "getch",
                     !.height = height, !.width = width, !.max_width = max_width]
  /\ UNCHANGED << filename, conversations, current_index >>
  /\ TagsFrame

\* lines 151-155 and 195-304: the top of the loop and display_conversation.
\* The size of the terminal is read, and scroll_position is brought down
\* to max_scroll; in a terminal too narrow for the controls addstr raises
\* curses.error at line 207 and run is left.
Redraw ==
  /\ view.pc = "redraw"
  /\ \E height \in RunHeights : \E width \in RunWidths :
       LET max_width == min(width - 2, 100)
           max_scroll == MaxScroll(conversations[current_index + 1], height, max_width)
       IN IF width - Len(Controls) - 1 < 0
          THEN view' = [view EXCEPT !.pc = "curses.error", !.height = height,
                                    !.width = width, !.max_width = max_width]
          ELSE view' = [view EXCEPT
                          !.pc = "getch", !.height = height, !.width = width,
                          !.max_width = max_width,
                          !.scroll_position = IF @ > max_scroll THEN max_scroll ELSE @]
  /\ UNCHANGED << filename, conversations, current_index >>
  /\ TagsFrame

\* lines 158-193: getch and the branch of the key
KeyPress(key) ==
  /\ view.pc = "getch"
  /\ CASE key = "q" ->
            /\ view' = [view EXCEPT !.pc = "returned"]
            /\ UNCHANGED current_index
       [] key = "n" ->
            IF current_index < Len(conversations) - 1
            THEN /\ current_index' = current_index + 1
                 /\ view' = [view EXCEPT !.pc = "redraw", !.scroll_position = 0]
            ELSE /\ view' = [view EXCEPT !.pc = "redraw"]
                 /\ UNCHANGED current_index
       [] key = "p" ->
            IF current_index > 0
            THEN /\ current_index' = current_index - 1
                 /\ view' = [view EXCEPT !.pc = "redraw", !.scroll_position = 0]
            ELSE /\ view' = [view EXCEPT !.pc = "redraw"]
                 /\ UNCHANGED current_index
       [] key = "j" ->
            /\ view' = [view EXCEPT !.pc = "redraw", !.scroll_position = @ + 1]
            /\ UNCHANGED current_index
       [] key = "k" ->
            /\ view' = [view EXCEPT !.pc = "redraw", !.scroll_position = max(0, @ - 1)]
            /\ UNCHANGED current_index
       [] key = " " ->
            /\ view' = [view EXCEPT !.pc = "redraw",
                                    !.scroll_position = @ + view.height \div 2]
            /\ UNCHANGED current_index
       [] key = "PPAGE" ->
            /\ view' = [view EXCEPT !.pc = "redraw",
                                    !.scroll_position = max(0, @ - view.height \div 2)]
            /\ UNCHANGED current_index
       [] key = "g" ->
            /\ view' = [view EXCEPT !.pc = "redraw", !.scroll_position = 0]
            /\ UNCHANGED current_index
       [] key = "G" ->
            /\ view' = [view EXCEPT !.pc = "redraw", !.scroll_position = 9999]
            /\ UNCHANGED current_index
       [] key = "f" ->
            \E input \in SearchInputs :
              LET result_index == find_conversation_by_id(conversations, input.search_text)
              IN IF input.enter /\ input.search_text # 0 /\ result_index # NotFound
                 THEN /\ current_index' = result_index
                      /\ view' = [view EXCEPT !.pc = "redraw", !.scroll_position = 0]
                 ELSE /\ view' = [view EXCEPT !.pc = "redraw"]
                      /\ UNCHANGED current_index
       [] OTHER ->
            /\ view' = [view EXCEPT !.pc = "redraw"]
            /\ UNCHANGED current_index
  /\ UNCHANGED << filename, conversations >>
  /\ TagsFrame

RunNext == Redraw \/ \E key \in RunKeys : KeyPress(key)

\* the main loop of the viewer
RunSpec == RunInit /\ [][RunNext]_vars

(* -------------------- the viewer: filter_by_tags ---------------------- *)
\* what get_tag_filter returns (lines 39-101): None, or the text entered
TagFilters == {None, "unread", "read", "vip"}

\* lines 16-20: the indices (counted from 0) of the conversations whose
\* metadata.tags holds the tag, in the order of the list; the code keeps
\* each index in a pair with its conversation
RECURSIVE Matching(_, _, _)
Matching(convs, tag_filter, i) ==
  IF i >= Len(convs) THEN << >>
  ELSE (IF /\ "metadata" \in DOMAIN convs[i + 1]
           /\ "tags" \in DOMAIN convs[i + 1].metadata
           /\ InList(tag_filter, convs[i + 1].metadata.tags)
        THEN << i >> ELSE << >>)
       \o Matching(convs, tag_filter, i + 1)

\* the viewer has loaded its file and filter_by_tags(stdscr, conversations,
\* all_tags, height, width) is called
FilterInit ==
  /\ \E n \in 1..MaxFiltered :
       conversations \in { convs \in [1..n -> UNION { LoadedRecords(c) : c \in 1..n }] :
                             \A i \in 1..n : convs[i].conversation_id = i }
  /\ current_index = 0
  /\ \E height \in Heights : view = [pc |-> "filter_by_tags", height |-> height]
  /\ filename = Rewritten(conversations)
  /\ call = NoCall
  /\ NoRun

\* lines 8-37 and 129-148: filter_by_tags up to the loop of
\* display_conversation_list: the tag is asked for, the matching
\* conversations are collected and, when there are any, the list is set up
FilterByTags ==
  /\ view.pc = "filter_by_tags"
  /\ \E tag_filter \in TagFilters :
       LET matching_conversations ==
             IF tag_filter = None THEN << >> ELSE Matching(conversations, tag_filter, 0)
       IN IF matching_conversations = << >>
          THEN view' = [pc |-> "returned", height |-> view.height,
                        tag_filter |-> tag_filter, result |-> NotFound]
          ELSE view' = [pc |-> "getch", height |-> view.height,
                        tag_filter |-> tag_filter,
                        matching_conversations |-> matching_conversations,
                        list_count |-> min(Len(matching_conversations), view.height - 6),
                        current_selection |-> 0, scroll_offset |-> 0]
  /\ UNCHANGED << filename, conversations, current_index >>
  /\ TagsFrame

\* the keys the loop of display_conversation_list has a branch for
ListKeys == { "ESC", "ENTER", "DOWN", "UP", "RESIZE" }

\* an Enter key that returns the position in the list shown
ListKey_ReturnsListPosition(key) ==
  /\ view.pc = "getch"
  /\ key = "ENTER"
  /\ view' = [pc |-> "returned", height |-> view.height,
              tag_filter |-> view.tag_filter, result |-> view.current_selection]
  /\ UNCHANGED << filename, conversations, current_index >>
  /\ TagsFrame

\* lines 174-202: getch and the branch of the key in
\* display_conversation_list; Escape returns None, Enter the index the
\* selected entry carries
ListKey(key) ==
  /\ view.pc = "getch"
  /\ CASE key = "ESC" ->
            view' = [pc |-> "returned", height |-> view.height,
                     tag_filter |-> view.tag_filter, result |-> NotFound]
       [] key = "ENTER" ->
            view' = [pc |-> "returned", height |-> view.height,
                     tag_filter |-> view.tag_filter,
                     result |-> view.matching_conversations[view.current_selection + 1]]
       [] key = "DOWN" ->
            IF view.current_selection < Len(view.matching_conversations) - 1
            THEN view' = [view EXCEPT
                            !.current_selection = @ + 1,
                            !.scroll_offset =
                               IF view.current_selection + 1 >= @ + view.list_count
                               THEN @ + 1 ELSE @]
            ELSE UNCHANGED view
       [] key = "UP" ->
            IF view.current_selection > 0
            THEN view' = [view EXCEPT
                            !.current_selection = @ - 1,
                            !.scroll_offset =
                               IF view.current_selection - 1 < @ THEN @ - 1 ELSE @]
            ELSE UNCHANGED view
       [] OTHER ->
            \E height \in Heights :
              view' = [view EXCEPT
                         !.height = height,
                         !.list_count = min(Len(view.matching_conversations), height - 6)]
  /\ UNCHANGED << filename, conversations, current_index >>
  /\ TagsFrame

FilterNext == FilterByTags \/ \E key \in ListKeys : ListKey(key)

\* one call of filter_by_tags
FilterSpec == FilterInit /\ [][FilterNext]_vars

(* ----------------------- the viewer: show_help ------------------------ *)
\* len(help_lines) (lines 11-38)
HelpLines == 26

\* the heights show_help may be called with and the terminal may be resized
\* to; the terminal is wide enough for the texts of the box
HelpHeights == {6, 7, 8, 12, 34}

\* lines 41 and 54: content_height for a terminal of the height
ContentHeight(height) == min(HelpLines + 4, height - 4) - 3

\* show_help(stdscr, height, width) is called
HelpInit ==
  /\ \E height \in HelpHeights : view = [pc |-> "show_help", height |-> height]
  /\ conversations = << >>
  /\ current_index = 0
  /\ filename = [exists |-> FALSE, lines |-> << >>]
  /\ call = NoCall
  /\ NoRun

\* lines 40-59: the windows are created and the scrolling is set up.
\* curses.newwin raises curses.error for a negative number of lines; for 0
\* lines it makes a window that reaches to the bottom of the screen.
ShowHelp ==
  /\ view.pc = "show_help"
  /\ LET content_height == ContentHeight(view.height)
     IN view' = [pc |-> IF content_height < 0 THEN "curses.error" ELSE "getch",
                 height |-> view.height,
                 content_height |-> content_height,
                 scroll_position |-> 0,
                 max_scroll |-> max(0, HelpLines - content_height)]
  /\ UNCHANGED << filename, conversations, current_index >>
  /\ TagsFrame

\* the keys the loop of show_help has a branch for
HelpKeys == { "ESC", "DOWN", "UP", " ", "PPAGE", "g", "G", "RESIZE" }

\* lines 78-116: getch and the branch of the key. On KEY_RESIZE the
\* windows are resized before max_scroll is recalculated, and
\* content_win.resize raises curses.error unless content_height > 0.
HelpKey(key) ==
  /\ view.pc = "getch"
  /\ CASE key = "ESC" -> view' = [view EXCEPT !.pc = "returned"]
       [] key = "DOWN" ->
            view' = [view EXCEPT !.scroll_position =
                                    IF @ < view.max_scroll THEN @ + 1 ELSE @]
       [] key = "UP" ->
            view' = [view EXCEPT !.scroll_position = IF @ > 0 THEN @ - 1 ELSE @]
       [] key = " " ->
            view' = [view EXCEPT !.scroll_position =
                                    min(view.max_scroll, @ + view.content_height - 1)]
       [] key = "PPAGE" ->
            view' = [view EXCEPT !.scroll_position =
                                    max(0, @ - (view.content_height - 1))]
       [] key = "g" -> view' = [view EXCEPT !.scroll_position = 0]
       [] key = "G" -> view' = [view EXCEPT !.scroll_position = view.max_scroll]
       [] OTHER ->
            \E height \in HelpHeights :
              LET content_height == ContentHeight(height)
                  max_scroll == max(0, HelpLines - content_height)
              IN IF content_height <= 0
                 THEN view' = [view EXCEPT !.pc = "curses.error", !.height = height,
                                           !.content_height = content_height]
                 ELSE view' = [view EXCEPT
                                 !.height = height,
                                 !.content_height = content_height,
                                 !.max_scroll = max_scroll,
                                 !.scroll_position = IF @ > max_scroll THEN max_scroll ELSE @]
  /\ view'.scroll_position \in (-MaxOvershoot)..(HelpLines + MaxOvershoot)
  /\ UNCHANGED << filename, conversations, current_index >>
  /\ TagsFrame

HelpNext == ShowHelp \/ \E key \in HelpKeys : HelpKey(key)

\* one call of show_help
HelpSpec == HelpInit /\ [][HelpNext]_vars

(* ----------------------- vocabulary of the claims --------------------- *)
\* the result fetch_messages computes for conversation c of the server
ResultOf(c) ==
  fetch_messages(Credentials, MessagePages(kind[c]), c,
                 CreatedAtOf(kind[c]), UpdatedAtOf(kind[c]))

\* a qualifying conversation: an incoming message and no fetch error
Qualifies(c) == ResultOf(c).error = None /\ ResultOf(c).has_incoming

\* conversation c is a complete line of the output
Present(c) ==
  \E i \in 1..Len(output_file) :
    output_file[i].complete /\ output_file[i].record.conversation_id = c

CompleteLines == { i \in 1..Len(output_file) : output_file[i].complete }

\* the ids the list endpoint has handed to the run
Listed == { submitted[i] : i \in 1..Len(submitted) }

\* the fetch of c has run to completion
HasResult(c) ==
  \/ c \in consumed
  \/ \E i \in 1..Len(future_to_id) :
       future_to_id[i].id = c /\ future_to_id[i].state = "finished"

\* the result of c passes the filter of the consuming loop and its record can
\* be built: no error, an incoming message, createdAt and updatedAt parse
Acceptable(c) ==
  /\ Qualifies(c)
  /\ fromisoformat(ResultOf(c).createdAt) # ParseError
  /\ fromisoformat(ResultOf(c).updatedAt) # ParseError

\* the run has observed the stop condition of line 271
StopObserved == max_to_save >= 1 /\ saved_count >= max_to_save

(* ------------------------------- C1 ----------------------------------- *)
\* C1 as stated: when fetch_conversations_and_write returns, a listed
\* conversation whose fetch completed is in the output file if and only if
\* its result has error None and has_incoming True.
C1_PersistedIffQualifies ==
  pc = "returned" =>
    \A c \in Listed : HasResult(c) => (Present(c) <=> Qualifies(c))

\* C1 amended: when fetch_conversations_and_write returns, a conversation is
\* in the output file only if the coordinating loop consumed its result and
\* the result had error None, has_incoming True and createdAt / updatedAt
\* that parse; and every consumed result of that kind whose write and flush
\* did not raise is in the output file. (A result still in flight when the
\* target is reached is never consumed.)
C1_PersistedIffConsumedAndAccepted ==
  pc = "returned" =>
    \A c \in DOMAIN kind :
      /\ Present(c) => (c \in consumed /\ Acceptable(c))
      /\ (c \in consumed /\ Acceptable(c) /\ c \notin write_failed) => Present(c)

\* a run that returned with one conversation written, one consumed and
\* rejected, and one qualifying result left unconsumed
C1_Witness ==
  /\ pc = "returned"
  /\ \E c \in consumed : Present(c)
  /\ \E c \in consumed : ~Qualifies(c) /\ ~Present(c)
  /\ \E c \in Listed : c \notin consumed /\ HasResult(c) /\ Qualifies(c) /\ ~Present(c)

(* ------------------------------- C2 ----------------------------------- *)
\* the pages a listing that follows the tokens covers: it ends with the
\* first page that is empty or carries no token
RECURSIVE ReachedFrom(_)
ReachedFrom(p) ==
  IF pages[p].conversations = << >> \/ pages[p].nextToken = NoToken
  THEN {p}
  ELSE {p} \cup ReachedFrom(pages[p].nextToken)

\* the source: the conversations on those pages
InSource ==
  { c \in DOMAIN kind :
      \E p \in ReachedFrom(1) :
        \E i \in 1..Len(pages[p].conversations) : pages[p].conversations[i].id = c }

\* the qualifying conversations of the source
QualifyingInSource == { c \in InSource : Qualifies(c) }

\* the qualifying conversations of the source whose timestamps parse
SavableInSource == { c \in InSource : Acceptable(c) }

\* no list request was answered with an error other than 429
NoListFailure == list_status # "error"

\* C2 as stated: for a target N >= 1, a source with at least N qualifying
\* conversations and no list-endpoint failure, the run writes exactly N
\* records and returns N, and once the N-th record is saved no list page is
\* requested.
C2_SavesExactlyTarget ==
  /\ [](pc = "returned" /\ max_to_save >= 1 /\ NoListFailure
        /\ Cardinality(QualifyingInSource) >= max_to_save
        => saved_count = max_to_save /\ Cardinality(CompleteLines) = max_to_save)
  /\ [][StopObserved => pc' # "list_request"]_vars

\* C2 amended: for a target N >= 1, when the source holds at least N
\* qualifying conversations whose createdAt and updatedAt parse, no list
\* request is answered with an error other than 429 and no write or flush
\* of the output raises, the run writes exactly N records and returns N, and
\* once the N-th record is saved no list page is requested.
C2_SavesExactlyTargetOfSavable ==
  /\ [](pc = "returned" /\ max_to_save >= 1 /\ NoListFailure /\ write_failed = {}
        /\ Cardinality(SavableInSource) >= max_to_save
        => saved_count = max_to_save /\ Cardinality(CompleteLines) = max_to_save)
  /\ [][StopObserved => pc' # "list_request"]_vars

\* the target was reached on the first of two pages although more savable
\* conversations exist; the second page was never requested
C2_Witness ==
  /\ pc = "returned"
  /\ max_to_save >= 2
  /\ saved_count = max_to_save
  /\ Cardinality(CompleteLines) = max_to_save
  /\ Cardinality(SavableInSource) > max_to_save
  /\ Len(pages) = 2
  /\ list_data = 1
  /\ write_failed = {}

(* ------------------------------- C3 ----------------------------------- *)
\* C3 as stated: for a source with M < N qualifying conversations the run
\* writes exactly M records and returns M.
C3_SavesAllWhenFewer ==
  pc = "returned" /\ Cardinality(QualifyingInSource) < max_to_save
  => /\ saved_count = Cardinality(QualifyingInSource)
     /\ Cardinality(CompleteLines) = Cardinality(QualifyingInSource)

\* C3 amended: when the qualifying conversations of the source whose
\* createdAt and updatedAt parse number M < N, no list request is answered
\* with an error other than 429 and no write or flush of the output raises,
\* the run writes exactly those M records and returns M.
C3_SavesAllSavableWhenFewer ==
  pc = "returned" /\ NoListFailure /\ write_failed = {}
  /\ Cardinality(SavableInSource) < max_to_save
  => /\ saved_count = Cardinality(SavableInSource)
     /\ Cardinality(CompleteLines) = Cardinality(SavableInSource)
     /\ \A c \in DOMAIN kind : Present(c) <=> c \in SavableInSource

\* the example: one page [A, B, C] without token, A and C with an incoming
\* message, B without, target above 2: two lines, A and C, and 2 returned
C3_Witness ==
  /\ pc = "returned"
  /\ Len(pages) = 1
  /\ kind = << "in", "out", "in" >>
  /\ max_to_save = 3
  /\ saved_count = 2
  /\ Len(output_file) = 2
  /\ Present(1) /\ Present(3) /\ ~Present(2)

(* ------------------------------- C4 ----------------------------------- *)
\* the call is over: the function has returned, or raised ValueError
Over == pc \in {"returned", "raised"}

C5_ResultsDiscardedAfterStop ==
  [][StopObserved =>
       /\ yielded' = yielded
       /\ consumed' = consumed
       /\ output_file' = output_file
       /\ saved_count' = saved_count
       /\ pc' # "list_request"]_vars

\* the run returned at the target while a fetch of the batch, in flight when
\* the target was reached, had completed with a result that would have been
\* accepted; the result was never consumed nor written
C5_Witness ==
  /\ pc = "returned"
  /\ StopObserved
  /\ \E i \in 1..Len(future_to_id) :
       /\ future_to_id[i].state = "finished"
       /\ i \notin yielded
       /\ Acceptable(future_to_id[i].id)
       /\ ~Present(future_to_id[i].id)

(* ------------------------------- C6 ----------------------------------- *)
\* future i goes from not started to running in this step
Starts(i) ==
  /\ i \in 1..Len(future_to_id')
  /\ future_to_id[i].state = "pending"
  /\ future_to_id'[i].state = "running"

\* C6 as stated: after the stop condition is observed no invocation of the
\* current batch that has not yet started begins to run, and none is
\* submitted for a later batch.
C6_NothingStartsAfterStop ==
  [][StopObserved =>
       /\ \A i \in 1..Len(future_to_id) : ~Starts(i)
       /\ submitted' = submitted]_vars

\* C6 amended: after the stop condition is observed, an invocation of the
\* current batch that has not yet started can still begin to run until the
\* cancel loop of lines 275-276 has called cancel() on its future; once
\* cancel() has been called on it, it never runs; and none is submitted for
\* a later batch.
C6_NothingStartsOnceCancelled ==
  [][StopObserved =>
       /\ \A i \in 1..Len(future_to_id) :
            Starts(i) => (pc = "cancel" /\ cancel_pos <= i)
       /\ submitted' = submitted]_vars

\* the run returned at the target and a future of the batch that had not
\* started was cancelled and never ran
C6_Witness ==
  /\ pc = "returned"
  /\ StopObserved
  /\ \E i \in 1..Len(future_to_id) :
       future_to_id[i].state = "cancelled" /\ future_to_id[i].result = NoResult

(* ------------------------------- C7 ----------------------------------- *)
\* C7: the number of fetch_messages invocations running at the same time
\* never exceeds MAX_CONCURRENT_CALLS.
C7_BoundedConcurrency ==
  Cardinality({ i \in 1..Len(future_to_id) : future_to_id[i].state = "running" })
    <= MAX_CONCURRENT_CALLS

\* the pool is full and a future of the batch waits for a free thread
C7_Witness ==
  /\ MAX_CONCURRENT_CALLS = 2
  /\ Cardinality({ i \in 1..Len(future_to_id) : future_to_id[i].state = "running" }) = 2
  /\ \E i \in 1..Len(future_to_id) : future_to_id[i].state = "pending"

(* ------------------------------- C8 ----------------------------------- *)
\* C8: after a 429 on the list endpoint the next list request carries the
\* same continuation token and the same page number; whatever the number of
\* 429 responses, the ids submitted to fetch_messages are the ids of the
\* source in list order, none skipped and none twice.
C8_RetrySamePage ==
  /\ [][list_status = "429" /\ pc' = "list_request"
        => current_url' = current_url /\ page' = page /\ next_token' = next_token]_vars
  /\ [](\A i \in 1..Len(submitted) : submitted[i] = i)
  /\ [](pc = "as_completed" =>
          Len(submitted) = Len(pages[list_data].conversations)
                           + (IF list_data = 2 THEN Len(pages[1].conversations) ELSE 0))

\* the second list page was answered 429 and is being requested again, with
\* the token of the first page's response and the first page's ids submitted
C8_Witness ==
  /\ pc = "list_request"
  /\ list_status = "429"
  /\ current_url = 2
  /\ page = 2
  /\ Len(submitted) >= 1

(* ------------------------------- C9 ----------------------------------- *)
\* C9: every accepted record is a complete, flushed line before the next
\* worker result is consumed, so at any point (a crash included) the file
\* holds the complete lines of the records accepted before, followed by at
\* most one partial line.
C9_AcceptedRecordsDurable ==
  /\ \A i \in 1..(Len(output_file) - 1) : output_file[i].complete
  /\ pc = "as_completed" =>
       /\ \A i \in 1..Len(output_file) : output_file[i].complete
       /\ \A c \in consumed : Acceptable(c) => Present(c)

(* ------------------------------- C10 ---------------------------------- *)
\* C10: a failure of the output write aborts the run: after a write or flush
\* has raised, no further worker result is consumed and nothing more is
\* written.
C10_WriteFailureAborts ==
  [][write_failed # {} => yielded' = yielded /\ output_file' = output_file]_vars

(* ------------------------------- C11 ---------------------------------- *)
\* the fetch of conversation c ends in an error
FetchFails(c) == ResultOf(c).error # None

\* the futures of the batch whose result the step hands to the loop
Handed == { i \in 1..Len(future_to_id) : i \in yielded' /\ i \notin yielded }

\* C11: an error in one conversation's message fetch affects only that
\* conversation. The result of every fetch of a batch is the result of its
\* own conversation, whichever sibling fails; the loop accepts or rejects
\* each result by that result alone; consuming an error result changes
\* neither the futures, the file nor the count and leaves the loop where it
\* is; a future is cancelled only once the target is reached; and after the
\* batch the next list page is requested as long as there is a token and
\* the target is not reached.
C11_FetchErrorIsolated ==
  /\ [](\A i \in 1..Len(future_to_id) :
          future_to_id[i].state = "finished"
            => future_to_id[i].result = ResultOf(future_to_id[i].id))
  /\ [][\A i \in Handed :
          /\ pc' = "write" <=> Acceptable(future_to_id[i].id)
          /\ FetchFails(future_to_id[i].id) =>
                /\ pc' = "as_completed"
                /\ future_to_id' = future_to_id
                /\ output_file' = output_file
                /\ saved_count' = saved_count]_vars
  /\ [][\A i \in 1..Len(future_to_id) :
          (pc # "list_request" /\ future_to_id[i].state # "cancelled"
             /\ future_to_id'[i].state = "cancelled") => StopObserved]_vars
  /\ [][(pc = "exit_with" /\ pc' # "exit_with" /\ saved_count < max_to_save
            /\ pages[list_data].nextToken # NoToken)
         => pc' = "while" /\ next_token' = pages[list_data].nextToken]_vars

\* a batch in which one fetch failed and was consumed, a sibling was written
\* after it, and the run went on to the second list page
C11_Witness ==
  /\ list_data = 2
  /\ Len(submitted) > Len(pages[1].conversations)
  /\ \E c, d \in consumed :
       /\ c < d
       /\ d <= Len(pages[1].conversations)
       /\ FetchFails(c)
       /\ Present(d)

(* ------------------------------- C12 ---------------------------------- *)
\* the pages the call asks for: page 1, and each page the page before it
\* announces with a token
Requested(server_pages) ==
  { k \in 1..Len(server_pages) :
      \A j \in 1..(k - 1) : ~server_pages[j].fail /\ server_pages[j].nextToken # NoToken }

\* a page request of the call fails
PageRequestFails(server_pages) ==
  \E k \in Requested(server_pages) : server_pages[k].fail

\* C12: when a page request of fetch_messages fails, the result has no
\* messages, has_incoming False and an error, also when earlier pages were
\* fetched and held incoming messages.
C12_FailureDropsPages ==
  (call.returned /\ AllSet(call.environ) /\ PageRequestFails(call.server_pages))
    => /\ call.result.messages = << >>
       /\ call.result.has_incoming = FALSE
       /\ call.result.error # None

\* a call whose first page held an incoming message and whose second page
\* failed
C12_Witness ==
  /\ call.returned
  /\ AllSet(call.environ)
  /\ Len(call.server_pages) = 2
  /\ call.server_pages[2].fail
  /\ \E i \in 1..Len(call.server_pages[1].messages) :
       call.server_pages[1].messages[i].direction = "incoming"
  /\ call.result.messages = << >>
  /\ call.result.error # None

(* ------------------------------- C13 ---------------------------------- *)
\* C13: on a non-429 HTTP error or any other error of the list request the
\* listing ends as if exhausted: the function returns (it does not raise),
\* no further list page is requested, the records written stay as they are,
\* and the value returned is the count saved so far, the number of records
\* in the file.
C13_ListErrorEndsListing ==
  /\ [][(list_status # "error" /\ list_status' = "error")
         => /\ pc' = "returned"
            /\ output_file' = output_file
            /\ saved_count' = saved_count]_vars
  /\ [](list_status = "error"
          => pc = "returned" /\ saved_count = Cardinality(CompleteLines))
  /\ [][list_status = "error"
         => /\ pc' # "list_request"
            /\ output_file' = output_file
            /\ saved_count' = saved_count]_vars

\* the request of the second list page failed after a record of the first
\* page was written
C13_Witness ==
  /\ list_status = "error"
  /\ pc = "returned"
  /\ current_url = 2
  /\ saved_count >= 1
  /\ saved_count < max_to_save
  /\ \E c \in consumed : Present(c)

(* ------------------------------- C14 ---------------------------------- *)
\* C14: when one of the three credentials is absent,
\* fetch_conversations_and_write raises ValueError before any network call:
\* no list request is sent and no message fetch is submitted; and
\* fetch_messages, called with that environment for any conversation of the
\* server, returns an error result with no messages without sending a
\* request.
C14_MissingCredentialsFailFirst ==
  /\ [](~AllSet(environ) =>
          /\ pc \in {"open", "check_env", "raised"}
          /\ list_status = "none"
          /\ submitted = << >>
          /\ future_to_id = << >>
          /\ \A c \in DOMAIN kind :
               LET result == fetch_messages(environ, MessagePages(kind[c]), c,
                                            CreatedAtOf(kind[c]), UpdatedAtOf(kind[c]))
               IN /\ result.error # None
                  /\ result.messages = << >>
                  /\ RequestsIssued(environ, MessagePages(kind[c])) = 0)
  /\ [][(pc = "check_env" /\ ~AllSet(environ)) => pc' = "raised"]_vars

\* the run of a server that holds a conversation with an incoming message
\* ended with ValueError because BOTPRESS_TOKEN is not set
C14_Witness ==
  /\ pc = "raised"
  /\ environ = Credentials \ {"BOTPRESS_TOKEN"}
  /\ max_to_save >= 1
  /\ \E c \in DOMAIN kind : kind[c] = "in"

(* ------------------------------- C15 ---------------------------------- *)
\* the step leaves in place what the file holds: every line stays where it
\* is, a complete line as it is, a torn line torn or completed
KeepsContent ==
  \A i \in 1..Len(output_file) :
    /\ Len(output_file') >= i
    /\ output_file'[i].record = output_file[i].record
    /\ output_file[i].complete => output_file'[i].complete

\* C15 as stated: no step of a run removes or changes content of the output
\* file, so what the file held before the run (records whose tags the
\* viewer rewrote included) is still there after it.
C15_ExistingContentKept == [][KeepsContent]_vars

\* C15 amended: save_conversations_to_jsonl opens the output path in write
\* mode, which discards what the file held before the run; from then on the
\* run only appends, and no line it has written is changed or removed.
C15_AppendOnlyAfterOpen ==
  /\ [][pc = "open" => output_file' = << >>]_vars
  /\ [][pc # "open" => KeepsContent]_vars

\* a run has written two records one after the other; no record of an
\* earlier run is left
C15_Witness ==
  /\ pc = "returned"
  /\ Len(output_file) = 2
  /\ output_file[1].complete /\ output_file[2].complete
  /\ output_file[1].record.conversation_id # output_file[2].record.conversation_id
  /\ \A i \in 1..Len(output_file) : output_file[i].record # OldRecord

(* ------------------------------- C16 ---------------------------------- *)
\* the messages of the pages in the order they arrive
RECURSIVE Arrival(_, _)
Arrival(server_pages, k) ==
  IF k > Len(server_pages) THEN << >>
  ELSE NormalizePage(server_pages[k].messages) \o Arrival(server_pages, k + 1)

\* the messages of a sequence that carry the sort key key, in their order
WithKey(msgs, key) == SelectSeq(msgs, LAMBDA m : SortKey(m) = key)

\* C16: in every result fetch_messages returns without error the messages
\* are sorted non-decreasing by timestamp, a missing timestamp counting as
\* the empty string and so coming first; they are the messages of the pages,
\* and messages of equal timestamp keep the order in which they arrived;
\* whatever the order of pages and messages the server returns.
C16_MessagesStablySorted ==
  (call.returned /\ call.result.error = None) =>
    LET messages == call.result.messages
        arrived == Arrival(call.server_pages, 1)
    IN /\ Len(messages) = Len(arrived)
       /\ \A i, j \in 1..Len(messages) :
            i < j => /\ SortKey(messages[i]) <= SortKey(messages[j])
                     /\ messages[j].timestamp = NullTimestamp
                          => messages[i].timestamp = NullTimestamp
       /\ \A key \in {EmptyKey, 1, 2} : WithKey(messages, key) = WithKey(arrived, key)

\* over two pages, two different messages of the same timestamp arrived
\* first and a message without timestamp last
C16_Witness ==
  /\ call.returned
  /\ call.result.error = None
  /\ Len(call.server_pages) = 2
  /\ LET arrived == Arrival(call.server_pages, 1)
     IN /\ Len(arrived) = 3
        /\ arrived[3].timestamp = NullTimestamp
        /\ arrived[1].timestamp = arrived[2].timestamp
        /\ arrived[1] # arrived[2]
        /\ call.result.messages = << arrived[3], arrived[1], arrived[2] >>

(* ------------------------------- C17 ---------------------------------- *)
\* a step of a pool thread: a future of the batch starts to run or finishes
\* while the coordinating thread stays where it is
WorkerStep ==
  /\ pc' = pc
  /\ Len(future_to_id') = Len(future_to_id)
  /\ \E i \in 1..Len(future_to_id) :
       /\ future_to_id'[i].state # future_to_id[i].state
       /\ future_to_id'[i].state \in {"running", "finished"}

\* C17: the output file is written by the coordinating thread only. No step
\* of a worker changes the file; the file changes only in a step the
\* coordinating thread takes at the open, the write or the flush, one
\* record at a time, so two writes never overlap.
C17_SingleWriter ==
  /\ [][WorkerStep => output_file' = output_file]_vars
  /\ [][output_file' # output_file
         => /\ pc \in {"open", "write", "flush"}
            /\ pc' # pc
            /\ future_to_id' = future_to_id]_vars
  /\ [](\A i \in 1..(Len(output_file) - 1) :
          ~output_file[i].complete => output_file[i].record.conversation_id \in write_failed)

\* the coordinating thread is in the middle of writing a record while a
\* worker of the same batch is running
C17_Witness ==
  /\ pc = "flush"
  /\ output_file # << >>
  /\ ~output_file[Len(output_file)].complete
  /\ \E i \in 1..Len(future_to_id) : future_to_id[i].state = "running"

(* ------------------------------- C18 ---------------------------------- *)
\* the continuation token of the last list response received (no token
\* before the first response)
LastTokenReceived == IF list_data = 0 THEN NoToken ELSE pages[list_data].nextToken

\* C18: list pages are requested strictly one at a time. A list request is
\* sent only when none is outstanding; the request for page k+1 is sent
\* after the response of page k was received and carries exactly the token
\* of that response (the first request carries none).
C18_ListPagesOneAtATime ==
  /\ [][pc' = "list_request"
         => /\ pc = "while"
            /\ current_url' = LastTokenReceived
            /\ page = list_data + 1
            /\ list_data >= 1 => current_url' # NoToken]_vars
  /\ [](pc = "list_request" => current_url = LastTokenReceived)

\* the second list page is being requested with the token of the response
\* of the first one
C18_Witness ==
  /\ pc = "list_request"
  /\ list_status = "ok"
  /\ list_data = 1
  /\ page = 2
  /\ current_url = 2
  /\ pages[1].nextToken = 2

(* ------------------------------- C19 ---------------------------------- *)
\* C19: a failed message fetch is never retried. Every conversation of a
\* list page is submitted to fetch_messages exactly once in a run; a result
\* is handed to the loop once and a finished future never runs again; a
\* conversation whose fetch failed is not in the file; and no
\* conversation_id is on two lines of the output.
C19_NoRetryOfMessageFetch ==
  /\ [](\A i, j \in 1..Len(submitted) : i # j => submitted[i] # submitted[j])
  /\ [](\A c \in consumed : FetchFails(c) => ~Present(c))
  /\ [][\A i \in Handed : future_to_id[i].id \notin consumed]_vars
  /\ [][\A i \in 1..Len(future_to_id) :
          (pc # "list_request" /\ future_to_id[i].state = "finished")
            => future_to_id'[i] = future_to_id[i]]_vars
  /\ [](\A i, j \in 1..Len(output_file) :
          i # j => output_file[i].record.conversation_id
                   # output_file[j].record.conversation_id)

\* a run over three conversations has returned; the fetch of one of them
\* failed and it was skipped, another one was written
C19_Witness ==
  /\ pc = "returned"
  /\ Len(submitted) = 3
  /\ consumed = {1, 2, 3}
  /\ \E c \in consumed : FetchFails(c) /\ ~Present(c)
  /\ \E c \in consumed : Present(c)

(* ------------------------------- C20 ---------------------------------- *)
\* the futures that have a result the loop has not taken yet
Unconsumed ==
  { i \in 1..Len(future_to_id) : future_to_id[i].state = "finished" /\ i \notin yielded }

\* The loop takes one result at a time, of a future that has completed, and
\* decides on it before it takes the next: acceptance right away, and after
\* an accepted record is counted the stop condition, so that no result is
\* taken once the target is reached.
OneResultAtATime ==
  /\ [][/\ Cardinality(Handed) <= 1
        /\ \A i \in Handed :
             /\ pc = "as_completed"
             /\ i \in Unconsumed
             /\ pc' = IF Acceptable(future_to_id[i].id) THEN "write" ELSE "as_completed"]_vars
  /\ [][(pc = "count" /\ pc' # "count") =>
          /\ saved_count' = saved_count + 1
          /\ pc' = IF saved_count' >= max_to_save THEN "cancel" ELSE "as_completed"]_vars
  /\ [](pc = "as_completed" => saved_count < max_to_save)

\* The loop never waits for the whole batch: whenever it is waiting and a
\* result is there, it can take one, whatever the other workers do.
NeverWaitsForBatch ==
  [](pc = "as_completed" /\ Unconsumed # {}
       => \E i \in Unconsumed : ENABLED ConsumeResult(i))

\* C20 as stated: results are consumed one by one in completion order, with
\* acceptance and the stop condition evaluated after each single result,
\* and without waiting for the whole batch.
C20_ConsumesInCompletionOrder ==
  /\ OneResultAtATime
  /\ NeverWaitsForBatch
  /\ [][\A i \in Handed : i = Head(finish_order)]_vars

\* C20 amended: the same, but the order is the order of completion only for
\* the results that complete after as_completed was called; the results
\* that were complete by then are taken before the others, in no particular
\* order.
C20_ConsumesAsCompleted ==
  /\ OneResultAtATime
  /\ NeverWaitsForBatch
  /\ [][\A i \in Handed :
          \/ i \in finished
          \/ finished = {} /\ i = Head(finish_order)]_vars

\* the loop is writing the record of the first result it took while another
\* worker of the batch is running and a third fetch has not started
C20_Witness ==
  /\ pc = "write"
  /\ yielded = {conv_id}
  /\ \E i \in 1..Len(future_to_id) : future_to_id[i].state = "running"
  /\ \E i \in 1..Len(future_to_id) : future_to_id[i].state = "pending"

(* ------------------------------- C21 ---------------------------------- *)
\* the text is the JSON text of a record (a text json.dumps produces)
IsRecordText(text) == \E i \in 1..Len(FileRecords) : text = json_dumps(FileRecords[i])
RecordOfText(text) ==
  FileRecords[CHOOSE i \in 1..Len(FileRecords) : text = json_dumps(FileRecords[i])]

\* the line is JSON: a record, or another JSON value
IsJSON(line) == IsRecordText(strip(line)) \/ strip(line) = << NullToken >>

\* the records of the lines that hold a record with messages, in file order
RECURSIVE RecordsWithMessages(_)
RecordsWithMessages(lines) ==
  IF lines = << >> THEN << >>
  ELSE (IF IsRecordText(strip(Head(lines)))
           /\ "messages" \in DOMAIN RecordOfText(strip(Head(lines)))
           /\ Len(RecordOfText(strip(Head(lines))).messages) > 0
        THEN << RecordOfText(strip(Head(lines))) >> ELSE << >>)
       \o RecordsWithMessages(Tail(lines))

\* the load has come to the end of the file
LoadOver == view.pc \in {"loaded", "ValueError"}

\* C21: the loader skips every line that fails to parse as JSON and goes on
\* with the next line; at the end of a file whose lines are JSON objects or
\* fail to parse (a last line cut short included) it has loaded the records
\* of all the lines that hold a record with messages, in file order; and it
\* raises ValueError only when it has loaded no conversation at all.
C21_LoaderSkipsBadLines ==
  /\ [][(view.pc = "for_line" /\ view.line_no <= Len(filename.lines)
           /\ ~IsJSON(filename.lines[view.line_no]))
         => /\ view'.pc = "for_line"
            /\ view'.line_no = view.line_no + 1
            /\ conversations' = conversations]_vars
  /\ [](LoadOver => conversations = RecordsWithMessages(filename.lines))
  /\ [](view.pc = "ValueError" => conversations = << >>)
  /\ [](view.pc = "loaded" => conversations # << >>)

\* a file of three lines was loaded: the first line was cut short, the
\* second holds a record, the last one was cut in the middle and has no
\* newline; the record of the second line is loaded
C21_Witness ==
  /\ view.pc = "loaded"
  /\ Len(filename.lines) = 3
  /\ filename.lines[1] \in { t \o << Newline >> : t \in Truncations(json_dumps(SavedRecord(1))) }
  /\ filename.lines[2] = RecordLine(SavedRecord(2))
  /\ filename.lines[3] \in Truncations(json_dumps(SavedRecord(1))) \ { << >> }
  /\ conversations = << SavedRecord(2) >>

SecondsOpen(c) ==
  fromisoformat(UpdatedAtOf(kind[c])) - fromisoformat(CreatedAtOf(kind[c]))

\* C23: the duration a record of the run carries is updatedAt - createdAt of
\* its conversation in minutes (60 seconds each), whatever its sign: it is
\* negative when updatedAt is earlier than createdAt; and such a
\* conversation is written like any other one: when the run has returned,
\* its record is in the file if the loop consumed its result and the write
\* did not raise.
C23_DurationNotClamped ==
  /\ \A i \in 1..Len(output_file) :
       LET record == output_file[i].record
       IN record.conversation_id \in DOMAIN kind =>
            /\ record.metadata.duration * 60 = SecondsOpen(record.conversation_id)
            /\ SecondsOpen(record.conversation_id) < 0 => record.metadata.duration < 0
  /\ pc = "returned" =>
       \A c \in consumed :
         (Acceptable(c) /\ SecondsOpen(c) < 0 /\ c \notin write_failed) => Present(c)

\* the run has returned and the file holds the record of a conversation
\* updated 15 minutes before it was created, with the duration -15
C23_Witness ==
  /\ pc = "returned"
  /\ \E i \in CompleteLines :
       /\ output_file[i].record.conversation_id \in DOMAIN kind
       /\ kind[output_file[i].record.conversation_id] = "in_skew"
       /\ output_file[i].record.metadata.duration = -15

(* ------------------------------- C24 ---------------------------------- *)
\* C24: in fetch_messages, request k+1 is issued if and only if response k
\* carried a continuation token, the first request carries no token, every
\* later request carries exactly the token of the response before it, and
\* pagination stops after the first response without a token.  A response
\* carries a token when its meta has a nextToken that is not null.
C24_RequestsFollowTokens ==
  (call.returned /\ AllSet(call.environ)) =>
    LET sent == call.requests
        responses == call.server_pages
    IN /\ Len(sent) >= 1
       /\ sent[1] = NoToken
       /\ \A k \in 1..Len(sent) :
            /\ (k + 1 <= Len(sent)) <=> (~responses[k].fail /\ responses[k].nextToken # NoToken)
            /\ (k + 1 <= Len(sent)) => sent[k + 1] = responses[k].nextToken

(* ------------------------------- C26 ---------------------------------- *)
\* the raw messages of the pages in the order they arrive
RECURSIVE RawArrival(_, _)
RawArrival(server_pages, k) ==
  IF k > Len(server_pages) THEN << >>
  ELSE server_pages[k].messages \o RawArrival(server_pages, k + 1)

\* how many times x occurs in the sequence seq
Occurrences(seq, x) == Cardinality({ i \in 1..Len(seq) : seq[i] = x })

\* what the claim says of a raw message that has a type: the payload text
\* for a text message whose payload has one, the placeholder otherwise
TextOrPlaceholder(message) ==
  IF message.type = "text" /\ "text" \in DOMAIN message.payload
  THEN message.payload.text
  ELSE "[" \o message.type \o " message]"

Normalized(message) ==
  [type |-> message.type, direction |-> message.direction,
   timestamp |-> message.updatedAt, text |-> TextOrPlaceholder(message)]

OnPage(p) == { pages[p].conversations[i].id : i \in 1..Len(pages[p].conversations) }

\* the run has returned after a last page without token that did not bring
\* it to its target: every conversation of the page was fetched and its
\* result consumed, and those accepted were written (unless the write
\* raised), the others not
LastPageProcessed ==
  (pc = "returned" /\ list_status = "ok" /\ list_data > 0
   /\ pages[list_data].nextToken = NoToken /\ saved_count < max_to_save)
  => \A c \in OnPage(list_data) :
       /\ c \in Listed /\ HasResult(c) /\ c \in consumed
       /\ c \notin write_failed => (Present(c) <=> Acceptable(c))

\* C25: the listing ends when a page contains zero conversations, even if
\* the page carries a continuation token, and when a page carries no token:
\* no further list request follows; in the second case the conversations of
\* the last page are still fetched and filtered before the run ends.
C25_ListingEnds ==
  [][/\ (pc = "list_request" /\ list_status' = "ok"
         /\ pages[list_data'].conversations = << >>)
        => (pc' = "returned" /\ submitted' = submitted)
     /\ (pc = "exit_with" /\ pc' # "exit_with" /\ pages[list_data].nextToken = NoToken)
        => pc' = "returned"
     /\ LastPageProcessed']_vars

\* the run has ended on a first page without conversations whose token
\* leads to a page with conversations, none of which was fetched
C25_Witness ==
  /\ pc = "returned"
  /\ max_to_save > 0
  /\ list_status = "ok"
  /\ list_data = 1
  /\ pages[1].conversations = << >>
  /\ pages[1].nextToken # NoToken
  /\ Len(pages[2].conversations) > 0
  /\ submitted = << >>

(* ------------------------------- C27 ---------------------------------- *)
\* the entry of conversation c in the server's list
ListedEntry(c) == ListEntry(c, kind[c])

\* C27: once the output is opened, every record written has conversation_id
\* equal to an id the list handed out, messages equal to the sorted message
\* list fetch_messages returns for it, metadata.createdDate equal to the
\* createdAt of its list entry and metadata.tags equal to <<"unread">>; and
\* saved_count counts every written record once: it equals the number of
\* records written, the one just flushed (line 265) being counted by the
\* next statement (line 267).
C27_RecordsAsFetched ==
  pc # "open" =>
    /\ \A i \in CompleteLines :
         LET record == output_file[i].record
         IN /\ record.conversation_id \in Listed
            /\ record.conversation_id = ListedEntry(record.conversation_id).id
            /\ record.messages = ResultOf(record.conversation_id).messages
            /\ record.messages = SortMessages(Arrival(MessagePages(kind[record.conversation_id]), 1))
            /\ record.metadata.createdDate = ListedEntry(record.conversation_id).createdAt
            /\ record.metadata.tags = << "unread" >>
    /\ saved_count + (IF pc = "count" THEN 1 ELSE 0) = Cardinality(CompleteLines)

\* two records written and counted, one of them of a conversation whose
\* messages came on two pages, newest first, and whose createdAt is not its
\* updatedAt
C27_Witness ==
  /\ pc = "returned"
  /\ saved_count = 2
  /\ Cardinality(CompleteLines) = 2
  /\ \E i \in CompleteLines :
       LET record == output_file[i].record
       IN /\ Len(record.messages) = 2
          /\ record.messages[1].timestamp < record.messages[2].timestamp
          /\ record.metadata.createdDate = ListedEntry(record.conversation_id).createdAt
          /\ ListedEntry(record.conversation_id).createdAt
               # ListedEntry(record.conversation_id).updatedAt

(* ------------------------------- C28 ---------------------------------- *)
\* the messages of the sequence out
Printed(out) == { out[i] : i \in 1..Len(out) }

\* C28: once the main block has set it, the concurrency limit the worker
\* pool uses is a positive integer: the value of --concurrent when that is
\* positive, and otherwise the default 10 together with a warning; a
\* non-positive value does not abort the run, which exits early only when a
\* credential is missing.
C28_ConcurrencyPositive ==
  (args.parsed /\ pc # "main") =>
    /\ MAX_CONCURRENT_CALLS \in Nat \ {0}
    /\ args.concurrent > 0 =>
         /\ MAX_CONCURRENT_CALLS = args.concurrent
         /\ ConcurrencyWarning \notin Printed(stderr)
    /\ args.concurrent <= 0 =>
         /\ MAX_CONCURRENT_CALLS = DEFAULT_CONCURRENT_CALLS
         /\ ConcurrencyWarning \in Printed(stderr)
    /\ pc = "exit" => ~AllSet(environ)
    /\ Cardinality(Running) <= MAX_CONCURRENT_CALLS

\* run with a negative --concurrent, the pool has two fetches running at
\* once
C28_Witness ==
  /\ args.parsed
  /\ args.concurrent < 0
  /\ pc = "as_completed"
  /\ Cardinality(Running) = 2
  /\ MAX_CONCURRENT_CALLS = DEFAULT_CONCURRENT_CALLS

(* ------------------------------- C29 ---------------------------------- *)
\* the listing has come to its end: the last list request was answered with
\* an error other than 429, or with a page without conversations or without
\* a token
ListingEnded ==
  \/ list_status = "error"
  \/ /\ list_status = "ok"
     /\ list_data > 0
     /\ \/ pages[list_data].conversations = << >>
        \/ pages[list_data].nextToken = NoToken

\* the summary reports "limit reached" exactly when the run saved as many
\* conversations as --limit asks for, and "less than the limit" exactly when
\* the listing ended with fewer saved
ReportsOutcome ==
  /\ actual_saved_count = Cardinality(CompleteLines)
  /\ LimitReached \in Printed(stdout) <=> Cardinality(CompleteLines) = args.limit
  /\ LessThanLimit \in Printed(stdout)
       <=> (ListingEnded /\ Cardinality(CompleteLines) < args.limit)

\* C29 as stated: for every limit and saved count the summary reports one of
\* the two outcomes, "limit reached" exactly when the run saved as many
\* conversations as requested and "fewer than the limit" exactly when the
\* source was exhausted, or the listing aborted, before the limit.
C29_SummaryForEveryLimit ==
  pc = "done" =>
    /\ ReportsOutcome
    /\ Printed(stdout) \in {{LimitReached}, {LessThanLimit}}

\* C29 amended: for every limit of 0 or more the summary reports one of the
\* two outcomes, "limit reached" exactly when the run saved as many
\* conversations as requested and "fewer than the limit" exactly when the
\* source was exhausted, or the listing aborted, before the limit; for a
\* negative limit nothing is saved and the summary reports neither.
C29_SummaryForLimitFromZero ==
  pc = "done" =>
    /\ ReportsOutcome
    /\ args.limit >= 0 => Printed(stdout) \in {{LimitReached}, {LessThanLimit}}
    /\ args.limit < 0 => (Printed(stdout) = {} /\ actual_saved_count = 0)

\* a run for two conversations that found one to save before the list
\* ended, and reported it as less than the limit
C29_Witness ==
  /\ pc = "done"
  /\ args.limit = 2
  /\ actual_saved_count = 1
  /\ Len(output_file) = 1
  /\ list_status = "ok"
  /\ stdout = << LessThanLimit >>

(* ------------------------------- C30 ---------------------------------- *)
\* fetch_conversations_and_write has been called
InRun == pc \notin {"main", "environment_check", "exit", "open"}

Max(a, b) == IF a >= b THEN a ELSE b

\* saved_count is within its bound, and a target of 0 or less sends no list
\* request and returns 0
WithinTarget ==
  /\ saved_count <= Max(0, max_to_save)
  /\ max_to_save <= 0 =>
       /\ pc # "list_request" /\ list_status = "none" /\ submitted = << >>
       /\ saved_count = 0
       /\ pc = "done" => actual_saved_count = 0

\* C30 as stated: in every reachable state of a run saved_count equals the
\* number of complete lines written to the output, never decreases and
\* never exceeds max(0, max_to_save); with max_to_save <= 0 no list request
\* is issued and 0 is returned.
C30_CountIsLinesWritten ==
  [][/\ saved_count' >= saved_count
     /\ InRun' => /\ saved_count' = Cardinality(CompleteLines')
                  /\ WithinTarget']_vars

\* C30 amended: in every reachable state of a run saved_count equals the
\* number of complete lines written to the output, except between the flush
\* of a line (line 265) and the increment after it (line 267), where it is
\* one less; it never decreases and never exceeds max(0, max_to_save); with
\* max_to_save <= 0 no list request is issued and 0 is returned.
C30_CountFollowsLinesWritten ==
  [][/\ saved_count' >= saved_count
     /\ InRun' => /\ pc' # "count" => saved_count' = Cardinality(CompleteLines')
                  /\ pc' = "count" => saved_count' + 1 = Cardinality(CompleteLines')
                  /\ WithinTarget']_vars

\* the second line of a run is flushed and not yet counted
C30_Witness ==
  /\ pc = "count"
  /\ max_to_save = 2
  /\ saved_count = 1
  /\ Cardinality(CompleteLines) = 2

(* ------------------------------- C31 ---------------------------------- *)
\* C31: whenever a conversation-list request is issued, and whenever
\* fetch_conversations_and_write has returned or raised, also after the
\* early end with shutdown(wait=False), no fetch_messages invocation is
\* running and none is waiting to start.
C31_WorkersEndWithBatch ==
  pc \in {"list_request", "sleep", "returned", "raised"} =>
    /\ Running = {}
    /\ \A i \in 1..Len(future_to_id) : future_to_id[i].state \in {"finished", "cancelled"}

\* the run has returned at its target after the early end of a batch: one
\* fetch was cancelled, another one was running when the pool was shut down
\* and finished with its result never consumed
C31_Witness ==
  /\ pc = "returned"
  /\ saved_count = max_to_save
  /\ cancel_pos > Len(future_to_id)
  /\ \E i, j \in 1..Len(future_to_id) :
       /\ future_to_id[i].state = "cancelled"
       /\ future_to_id[j].state = "finished"
       /\ j \notin yielded
       /\ future_to_id[j].id \notin consumed

(* ------------------------------- C32 ---------------------------------- *)
\* a result without error and with an incoming message whose createdAt or
\* updatedAt is not a timestamp
UnparsedTimestamp(result) ==
  /\ result.error = None
  /\ result.has_incoming
  /\ \/ fromisoformat(result.createdAt) = ParseError
     \/ fromisoformat(result.updatedAt) = ParseError

\* C32: when the loop takes a result that has error None and has_incoming
\* True but whose createdAt or updatedAt cannot be parsed as a timestamp,
\* nothing is written for the conversation and saved_count is unchanged, and
\* the loop goes on with the remaining results of the batch (and then with
\* the later pages); no line of the output is ever one of such a
\* conversation.
C32_UnparsedTimestampSkipped ==
  [][/\ \A i \in 1..Len(future_to_id) :
          (/\ pc = "as_completed" /\ i \notin yielded /\ i \in yielded'
           /\ future_to_id[i].state = "finished"
           /\ UnparsedTimestamp(future_to_id[i].result))
          => /\ pc' = "as_completed"
             /\ output_file' = output_file
             /\ saved_count' = saved_count
     /\ \A c \in DOMAIN kind :
          UnparsedTimestamp(ResultOf(c)) =>
            \A n \in 1..Len(output_file') : output_file'[n].record.conversation_id # c]_vars

\* the first page held a conversation whose updatedAt is not a timestamp;
\* its result was consumed, nothing was written for it, and the
\* conversation of the second page was saved
C32_Witness ==
  /\ pc = "done"
  /\ Len(pages) = 2
  /\ Len(kind) = 2
  /\ kind[1] = "in_badupdate"
  /\ pages[1].conversations # << >>
  /\ pages[1].conversations[1].id = 1
  /\ 1 \in consumed /\ 2 \in consumed
  /\ ~Present(1) /\ Present(2)
  /\ actual_saved_count = 1

(* ------------------------------- C33 ---------------------------------- *)
\* the ids of the entries of list page p
IdsOnPage(p) ==
  { pages[p].conversations[i].id :
      i \in { j \in 1..Len(pages[p].conversations) : "id" \in DOMAIN pages[p].conversations[j] } }

\* C33: if an entry of a list page that has an id lacks createdAt or
\* updatedAt, no conversation of the page is ever submitted to
\* fetch_messages, and the request of the page, unless it is answered 429
\* and retried, ends the run with the count saved from the earlier pages.
C33_MalformedPageDropped ==
  [][/\ (/\ pc = "list_request"
         /\ RaisesKeyError(pages[PageFor(current_url)])
         /\ pc' # "sleep")
        => /\ pc' = "returned"
           /\ saved_count' = saved_count
           /\ submitted' = submitted
           /\ future_to_id' = future_to_id
           /\ output_file' = output_file
     /\ \A p \in 1..Len(pages) :
          RaisesKeyError(pages[p]) => IdsOnPage(p) \cap Listed' = {}]_vars

\* the second page holds a well-formed entry and then one without
\* createdAt: the run has ended with the record of the first page, short of
\* its target, and nothing of the second page was submitted
C33_Witness ==
  /\ pc = "returned"
  /\ Len(pages) = 2
  /\ Len(pages[2].conversations) = 2
  /\ DOMAIN pages[2].conversations[1] = {"id", "createdAt", "updatedAt"}
  /\ DOMAIN pages[2].conversations[2] = {"id", "updatedAt"}
  /\ kind[2] = "in"
  /\ list_data = 2
  /\ submitted = << 1 >>
  /\ saved_count = 1
  /\ max_to_save > 1
  /\ Len(output_file) = 1

(* ------------------------------- C34 ---------------------------------- *)
\* the records of the lines of the output file, in file order
WrittenRecords == [i \in 1..Len(output_file) |-> output_file[i].record]

\* the loader has read the file to its end
LoaderDone == view.pc \in {"loaded", "ValueError"}

\* C34: every record the pipeline writes has a non-empty messages list, and
\* once the viewer has loaded the file of a run in which every write
\* completed, its conversations are the records written, in file order, and
\* there are saved_count of them.
C34_WrittenFileLoadsWhole ==
  /\ \A i \in 1..Len(output_file) :
       pc # "open" => output_file[i].record.messages # << >>
  /\ (LoaderDone /\ write_failed = {}) =>
       /\ conversations = WrittenRecords
       /\ Len(conversations) = saved_count

\* the viewer has loaded a file of two records
C34_Witness ==
  /\ LoaderDone
  /\ write_failed = {}
  /\ saved_count >= 2
  /\ Len(conversations) = saved_count

(* ------------------------------- C35 ---------------------------------- *)
\* the viewer shows a conversation it holds, at a position that is no
\* negative one
RunIndexInRange ==
  /\ 0 <= current_index /\ current_index < Len(conversations)
  /\ view.scroll_position >= 0

\* C35: in the main loop of the viewer, after any sequence of keys,
\* 0 <= current_index < len(conversations) and scroll_position >= 0; a step
\* that changes current_index leaves scroll_position at 0; and after each
\* redraw scroll_position <= max_scroll of the conversation shown in the
\* terminal as it was drawn.
C35_IndexAndScrollInRange ==
  [][ /\ RunIndexInRange'
      /\ current_index' # current_index => view'.scroll_position = 0
      /\ (view.pc = "redraw" /\ view'.pc = "getch") =>
           view'.scroll_position
             <= MaxScroll(conversations'[current_index' + 1], view'.height, view'.max_width)
    ]_vars

\* the second conversation is shown after a key that moved to it, scrolled
\* to the end of a text longer than the window
C35_Witness ==
  /\ view.pc = "getch"
  /\ current_index = 1
  /\ view.scroll_position > 0
  /\ view.scroll_position
       = MaxScroll(conversations[current_index + 1], view.height, view.max_width)

(* ------------------------------- C36 ---------------------------------- *)
\* the entries of the selection list shown
ListItems ==
  IF "matching_conversations" \in DOMAIN view
  THEN Len(view.matching_conversations) ELSE Len(view.display_tags)

\* C36: in a selection list, after any sequence of up, down and resize
\* events, 0 <= current_selection < number of items and
\* scroll_offset <= current_selection < scroll_offset + list_count.
C36_SelectionVisible ==
  view.pc = "getch" =>
    /\ 0 <= view.current_selection /\ view.current_selection < ListItems
    /\ view.scroll_offset <= view.current_selection
    /\ view.current_selection < view.scroll_offset + view.list_count

(* ------------------------------- C37 ---------------------------------- *)
\* C37: what filter_by_tags returns is None or an index into the full list
\* of conversations, and the conversation at that index has the tag that
\* was entered in its metadata.tags.
C37_ReturnsIndexOfTaggedConversation ==
  (view.pc = "returned" /\ view.result # NotFound) =>
    /\ view.result \in 0..(Len(conversations) - 1)
    /\ view.tag_filter # None
    /\ InList(view.tag_filter, TagsOf(conversations[view.result + 1]))

\* the third conversation was selected in a list that does not show the
\* first
C37_Witness ==
  /\ view.pc = "returned"
  /\ view.result = 2
  /\ ~InList(view.tag_filter, TagsOf(conversations[1]))

(* ------------------------------- C38 ---------------------------------- *)
\* C38: in the help window, after any sequence of scroll, page, top, bottom
\* and resize events, 0 <= scroll_position <= max_scroll, where max_scroll
\* is max(0, number of help lines - content_height) for the current size of
\* the window.
C38_HelpScrollInRange ==
  view.pc = "getch" =>
    /\ view.max_scroll = max(0, HelpLines - ContentHeight(view.height))
    /\ 0 <= view.scroll_position
    /\ view.scroll_position <= view.max_scroll

====
